---- MODULE Spec2Model ----
(***************************************************************************)
(* A model of solve_roster (src/src/scheduler/rostering_api.py): one       *)
(* scheduling request is validated, encoded as a CP-SAT model, solved and  *)
(* turned into a roster.  The CP-SAT solver is external: it is modelled as *)
(* a nondeterministic choice among the assignments that satisfy every      *)
(* constraint the code adds to the model.                                  *)
(*                                                                         *)
(* Days of the week are the numbers 1..MaxDays (1 = monday); a request's   *)
(* horizon is a sequence of distinct days.  Hours are floats in the code;  *)
(* here an hour value is the number of quarter hours it stands for, so     *)
(* that int(hours * 60) is computed exactly.                               *)
(***************************************************************************)
EXTENDS Integers, Sequences, FiniteSets, TLC

VARIABLES request, phase, error, model_created, solver_calls, status, solution, response

vars == <<request, phase, error, model_created, solver_calls, status, solution, response>>

-----------------------------------------------------------------------------
(* Bounds of the model *)

MaxDays == 3
MaxEmployees == 2
MaxYards == 2
MaxVisits == 2
MaxGap == 2

-----------------------------------------------------------------------------
(* Program constants *)

MINUTES_PER_HOUR == 60
\* hour values are carried as quarter hours: QuartersPerHour of them make one hour
QuartersPerHour == 4

\* None for the optional tuples (per_week, linked_yard) and for not_region
None == <<>>

NoRegion == "none"

RangeOf(s) == {s[i] : i \in 1..Len(s)}

\* int(hours * SCALE_FACTOR) for an hour value given in quarter hours
ToMinutes(q) == (q * MINUTES_PER_HOUR) \div QuartersPerHour

-----------------------------------------------------------------------------
(* The request *)

Employee(id, ranking, available_days, not_region) ==
    [id |-> id, ranking |-> ranking, available_days |-> available_days,
     not_region |-> not_region]

CarYard(id, priority, region, required_days, per_week, linked_yard, min_employees, max_employees, hours_required) ==
    [id |-> id, priority |-> priority, region |-> region,
     required_days |-> required_days, per_week |-> per_week,
     linked_yard |-> linked_yard, min_employees |-> min_employees,
     max_employees |-> max_employees, hours_required |-> hours_required,
     startTime |-> None]

ScheduleRequest(employees, car_yards, days, yard_groups, max_hours_per_day) ==
    [employees |-> employees, car_yards |-> car_yards, days |-> days,
     yard_groups |-> yard_groups, max_hours_per_day |-> max_hours_per_day,
     earliest_start_time |-> None, travel_buffer_minutes |-> 30]

\* a yard with its own start time, a time of day <<hour, minute>>
WithStartTime(cy, startTime) == [cy EXCEPT !.startTime = startTime]

\* a request with an earliest start time and a travel buffer
WithTimes(r, earliest_start_time, travel_buffer_minutes) ==
    [r EXCEPT !.earliest_start_time = earliest_start_time,
              !.travel_buffer_minutes = travel_buffer_minutes]

-----------------------------------------------------------------------------
(* Input validation, lines 244-293 *)

NoError == "none"

EmployeeIds(r) == {r.employees[i].id : i \in 1..Len(r.employees)}

YardIds(r) == {r.car_yards[i].id : i \in 1..Len(r.car_yards)}

\* InputError without the check of min_employees against max_employees
InputErrorNoMinMax(r) ==
    IF Len(r.employees) # Cardinality(EmployeeIds(r)) THEN "Duplicate employee IDs"
    ELSE IF Len(r.car_yards) # Cardinality(YardIds(r)) THEN "Duplicate car yard IDs"
    ELSE IF Len(r.employees) = 0 THEN "At least one employee is required"
    ELSE IF Len(r.car_yards) = 0 THEN "At least one car yard is required"
    ELSE IF Len(r.days) = 0 THEN "At least one day is required"
    ELSE IF \E g \in 1..Len(r.yard_groups) : ~(r.yard_groups[g] \subseteq YardIds(r))
         THEN "Yard group contains invalid yard IDs"
    ELSE NoError

\* The detail of the HTTPException the input validation raises, or NoError
InputError(r) ==
    IF Len(r.employees) # Cardinality(EmployeeIds(r)) THEN "Duplicate employee IDs"
    ELSE IF Len(r.car_yards) # Cardinality(YardIds(r)) THEN "Duplicate car yard IDs"
    ELSE IF Len(r.employees) = 0 THEN "At least one employee is required"
    ELSE IF Len(r.car_yards) = 0 THEN "At least one car yard is required"
    ELSE IF Len(r.days) = 0 THEN "At least one day is required"
    ELSE IF \E i \in 1..Len(r.car_yards) :
                r.car_yards[i].min_employees > r.car_yards[i].max_employees
         THEN "min_employees > max_employees"
    ELSE IF \E g \in 1..Len(r.yard_groups) : ~(r.yard_groups[g] \subseteq YardIds(r))
         THEN "Yard group contains invalid yard IDs"
    ELSE NoError

-----------------------------------------------------------------------------
(* Indices and visit requirements, lines 295-398 *)

\* employees[emp_id] and car_yards[cy_id] of the validated request (ids are unique)
employees(r, emp_id) == CHOOSE e \in RangeOf(r.employees) : e.id = emp_id

car_yards(r, cy_id) == CHOOSE cy \in RangeOf(r.car_yards) : cy.id = cy_id

\* line 318: the last position of the day in the horizon
day_index(r, day) ==
    CHOOSE i \in 1..Len(r.days) :
        r.days[i] = day /\ \A j \in (i + 1)..Len(r.days) : r.days[j] # day

has_per_week(cy) == cy.per_week # None

has_required_days(cy) == cy.required_days # {}

\* coverage_requirements[cy_id] = (visits_required, min_gap)
coverage_requirements(cy) == IF has_per_week(cy) THEN cy.per_week ELSE <<1, 0>>

\* a link counted whatever its target
HasLinkToAny(r, cy) == cy.linked_yard # None

\* the yard declares a link whose target is a yard of the request (line 369)
HasLink(r, cy) == cy.linked_yard # None /\ cy.linked_yard[1] \in YardIds(r)

\* key = tuple(sorted((cy_id, linked_id)))
LinkKey(cy) ==
    IF cy.id <= cy.linked_yard[1] THEN <<cy.id, cy.linked_yard[1]>>
    ELSE <<cy.linked_yard[1], cy.id>>

\* What the loop of lines 325-386 raises at the i-th yard when the yards before it
\* raised nothing (link_pairs then holds one gap per key declared so far)
YardError(r, i) ==
    LET cy == r.car_yards[i]
        visits_required == coverage_requirements(cy)[1]
    IN  IF has_per_week(cy) /\ visits_required > Len(r.days)
            THEN "visits per week exceed scheduled days"
        ELSE IF has_per_week(cy) /\ has_required_days(cy)
                /\ ~(cy.required_days \subseteq RangeOf(r.days))
            THEN "required_days not in scheduled days"
        ELSE IF ~HasLink(r, cy) THEN NoError
        ELSE IF cy.linked_yard[2] < 0 THEN "Linked yard gap must be non-negative"
        ELSE IF visits_required > 1 THEN "Linked yard cannot require more than one visit"
        ELSE IF \E j \in 1..(i - 1) :
                    /\ HasLink(r, r.car_yards[j])
                    /\ LinkKey(r.car_yards[j]) = LinkKey(cy)
                    /\ r.car_yards[j].linked_yard[2] # cy.linked_yard[2]
            THEN "Conflicting linked yard gaps"
        ELSE NoError

\* link_pairs as the set of <<source_id, target_id, gap_days>> (one gap per key
\* once no yard raised)
link_pairs(r) ==
    {<<LinkKey(cy)[1], LinkKey(cy)[2], cy.linked_yard[2]>> :
        cy \in {c \in RangeOf(r.car_yards) : HasLink(r, c)}}

linked_yard_ids(r) == UNION {{p[1], p[2]} : p \in link_pairs(r)}

\* lines 389-398: a yard of a linked pair that requires more than one visit
LinkedVisitsError(r) ==
    IF \E p \in link_pairs(r) : \E yard_id \in {p[1], p[2]} :
            coverage_requirements(car_yards(r, yard_id))[1] > 1
    THEN "Linked yard cannot require more than one visit"
    ELSE NoError

\* lines 618-623, raised while the frequency constraints are added
LinkedRequiredDaysError(r) ==
    IF \E cy \in RangeOf(r.car_yards) :
            cy.id \in linked_yard_ids(r) /\ Cardinality(cy.required_days) > 1
    THEN "Linked yard cannot have multiple required days"
    ELSE NoError

\* ModelError without the check of the visits of both yards of a pair (lines 389-398)
ModelErrorNoPairCheck(r) ==
    LET bad == {i \in 1..Len(r.car_yards) : YardError(r, i) # NoError}
    IN  IF bad # {} THEN YardError(r, CHOOSE i \in bad : \A j \in bad : i <= j)
        ELSE LinkedRequiredDaysError(r)

\* The first exception raised between the creation of the model (line 295) and
\* the call of the solver (line 773), or NoError
ModelError(r) ==
    LET bad == {i \in 1..Len(r.car_yards) : YardError(r, i) # NoError}
    IN  IF bad # {} THEN YardError(r, CHOOSE i \in bad : \A j \in bad : i <= j)
        ELSE IF LinkedVisitsError(r) # NoError THEN LinkedVisitsError(r)
        ELSE LinkedRequiredDaysError(r)

-----------------------------------------------------------------------------
(* The CP-SAT model, lines 302-666.  An assignment of the decision variables *)
(* is a function s from <<cy_id, day>> to the values of x, covered and       *)
(* work_minutes of that yard and day.                                        *)

Days(r) == RangeOf(r.days)

x(s, emp_id, cy_id, day) == s[<<cy_id, day>>].x[emp_id]

covered(s, cy_id, day) == s[<<cy_id, day>>].covered

work_minutes(s, emp_id, cy_id, day) == s[<<cy_id, day>>].work[emp_id]

RECURSIVE SumF(_, _)
\* sum(f[a] for a in S)
SumF(f, S) ==
    IF S = {} THEN 0
    ELSE LET a == CHOOSE b \in S : TRUE IN f[a] + SumF(f, S \ {a})

RECURSIVE SumSeq(_, _, _)
\* sum(f[i] for i in range(lo, hi + 1)), halving the range
SumSeq(f, lo, hi) ==
    IF lo > hi THEN 0
    ELSE IF lo = hi THEN f[lo]
    ELSE SumSeq(f, lo, (lo + hi) \div 2) + SumSeq(f, ((lo + hi) \div 2) + 1, hi)

\* RequiredDaysRestriction applied to the yards that do declare per_week
RequiredDaysRestrictionPerWeek(r, s, cy_id, day) ==
    LET cy == car_yards(r, cy_id)
    IN  (has_required_days(cy) /\ has_per_week(cy) /\ day \notin cy.required_days)
            => /\ covered(s, cy_id, day) = 0
               /\ \A emp_id \in EmployeeIds(r) : x(s, emp_id, cy_id, day) = 0

\* lines 330-336: required_days without per_week restricts the yard to those days
RequiredDaysRestriction(r, s, cy_id, day) ==
    LET cy == car_yards(r, cy_id)
    IN  (has_required_days(cy) /\ ~has_per_week(cy) /\ day \notin cy.required_days)
            => /\ covered(s, cy_id, day) = 0
               /\ \A emp_id \in EmployeeIds(r) : x(s, emp_id, cy_id, day) = 0

\* EligibilityConstraint without the availability branch
EligibilityRegionOnly(r, s, cy_id, day) ==
    \A emp_id \in EmployeeIds(r) :
        (employees(r, emp_id).not_region # NoRegion
            /\ car_yards(r, cy_id).region = employees(r, emp_id).not_region)
                => x(s, emp_id, cy_id, day) = 0

\* lines 402-412: region exclusions and availability
EligibilityConstraint(r, s, cy_id, day) ==
    \A emp_id \in EmployeeIds(r) :
        LET emp == employees(r, emp_id)
            cy == car_yards(r, cy_id)
        IN  IF emp.not_region # NoRegion /\ cy.region = emp.not_region
            THEN x(s, emp_id, cy_id, day) = 0
            ELSE day \notin emp.available_days => x(s, emp_id, cy_id, day) = 0

employees_at_yard(r, s, cy_id, day) ==
    SumF([emp_id \in EmployeeIds(r) |-> x(s, emp_id, cy_id, day)], EmployeeIds(r))

\* CoverageConstraint with the upper bound off by one employee
CoverageMaxPlusOne(r, s, cy_id, day) ==
    LET cy == car_yards(r, cy_id)
    IN  /\ employees_at_yard(r, s, cy_id, day) >= cy.min_employees * covered(s, cy_id, day)
        /\ employees_at_yard(r, s, cy_id, day)
                <= (cy.max_employees + 1) * covered(s, cy_id, day)

\* lines 427-433: between min and max employees if covered, none otherwise
CoverageConstraint(r, s, cy_id, day) ==
    LET cy == car_yards(r, cy_id)
    IN  /\ employees_at_yard(r, s, cy_id, day) >= cy.min_employees * covered(s, cy_id, day)
        /\ employees_at_yard(r, s, cy_id, day) <= cy.max_employees * covered(s, cy_id, day)

total_minutes(cy) == ToMinutes(cy.hours_required)

\* WorkConstraint with the crew's minutes six short of the yard's
WorkConstraintShort(r, s, cy_id, day) ==
    LET cy == car_yards(r, cy_id)
        E == EmployeeIds(r)
        total_work == SumF([emp_id \in E |-> work_minutes(s, emp_id, cy_id, day)], E)
    IN  /\ \A emp_id \in E :
            /\ work_minutes(s, emp_id, cy_id, day) \in 0..total_minutes(cy)
            /\ x(s, emp_id, cy_id, day) = 0 => work_minutes(s, emp_id, cy_id, day) = 0
        /\ covered(s, cy_id, day) = 1 => total_work = total_minutes(cy) - 6
        /\ covered(s, cy_id, day) = 0 => total_work = 0
        /\ Cardinality(E) > 1 =>
            \A i \in E : \A j \in E :
                (i # j /\ x(s, i, cy_id, day) = 1 /\ x(s, j, cy_id, day) = 1)
                    => /\ work_minutes(s, i, cy_id, day) - work_minutes(s, j, cy_id, day) <= 1
                       /\ work_minutes(s, i, cy_id, day) - work_minutes(s, j, cy_id, day) >= -1

\* lines 524-579: the yard's minutes are split among the assigned employees
WorkConstraint(r, s, cy_id, day) ==
    LET cy == car_yards(r, cy_id)
        E == EmployeeIds(r)
        total_work == SumF([emp_id \in E |-> work_minutes(s, emp_id, cy_id, day)], E)
    IN  /\ \A emp_id \in E :
            /\ work_minutes(s, emp_id, cy_id, day) \in 0..total_minutes(cy)
            /\ x(s, emp_id, cy_id, day) = 0 => work_minutes(s, emp_id, cy_id, day) = 0
        /\ covered(s, cy_id, day) = 1 => total_work = total_minutes(cy)
        /\ covered(s, cy_id, day) = 0 => total_work = 0
        /\ Cardinality(E) > 1 =>
            \A i \in E : \A j \in E :
                (i # j /\ x(s, i, cy_id, day) = 1 /\ x(s, j, cy_id, day) = 1)
                    => /\ work_minutes(s, i, cy_id, day) - work_minutes(s, j, cy_id, day) <= 1
                       /\ work_minutes(s, i, cy_id, day) - work_minutes(s, j, cy_id, day) >= -1

max_minutes(r) == ToMinutes(r.max_hours_per_day)

total_minutes_worked(r, s, emp_id, day) ==
    SumF([cy_id \in YardIds(r) |-> work_minutes(s, emp_id, cy_id, day)], YardIds(r))

\* HoursConstraint with only the domain of total_minutes_worked (lines 584-586)
HoursDomainOnly(r, s) ==
    \A emp_id \in EmployeeIds(r) : \A day \in Days(r) :
        total_minutes_worked(r, s, emp_id, day) <= max_minutes(r) * Len(r.car_yards)

\* lines 582-592: the daily cap on an employee's minutes
HoursConstraint(r, s) ==
    \A emp_id \in EmployeeIds(r) : \A day \in Days(r) :
        total_minutes_worked(r, s, emp_id, day) <= max_minutes(r)

\* sum(coverage_vars): over the positions of the horizon
CoverageCount(r, s, cy_id) ==
    SumF([i \in 1..Len(r.days) |-> covered(s, cy_id, r.days[i])], 1..Len(r.days))

\* VisitCountConstraint with every required count only an upper limit
VisitCountAtMost(r, s, cy_id) ==
    LET cy == car_yards(r, cy_id)
        required_visits == coverage_requirements(cy)[1]
        is_linked == cy_id \in linked_yard_ids(r)
    IN  /\ ~is_linked => CoverageCount(r, s, cy_id) <= required_visits
        /\ is_linked => CoverageCount(r, s, cy_id) <= 1

\* lines 602-624: the number of visits over the horizon
VisitCountConstraint(r, s, cy_id) ==
    LET cy == car_yards(r, cy_id)
        required_visits == coverage_requirements(cy)[1]
        is_linked == cy_id \in linked_yard_ids(r)
        requires_exact_coverage ==
            ~is_linked /\ (has_per_week(cy) \/ has_required_days(cy))
    IN  /\ requires_exact_coverage => CoverageCount(r, s, cy_id) = required_visits
        /\ (~requires_exact_coverage /\ ~is_linked)
                => CoverageCount(r, s, cy_id) <= required_visits
        /\ is_linked => CoverageCount(r, s, cy_id) = 1

\* VisitGapConstraint with the gap test off by one day
VisitGapOffByOne(r, s, cy_id) ==
    LET cy == car_yards(r, cy_id)
        required_visits == coverage_requirements(cy)[1]
        min_gap == coverage_requirements(cy)[2]
    IN  (required_visits > 1 /\ min_gap > 0) =>
            \A i \in 1..Len(r.days) : \A j \in (i + 1)..Len(r.days) :
                day_index(r, r.days[j]) - day_index(r, r.days[i]) < min_gap - 1
                    => (covered(s, cy_id, r.days[i]) = 0 \/ covered(s, cy_id, r.days[j]) = 0)

\* lines 626-633: no two visits closer than min_gap
VisitGapConstraint(r, s, cy_id) ==
    LET cy == car_yards(r, cy_id)
        required_visits == coverage_requirements(cy)[1]
        min_gap == coverage_requirements(cy)[2]
    IN  (required_visits > 1 /\ min_gap > 0) =>
            \A i \in 1..Len(r.days) : \A j \in (i + 1)..Len(r.days) :
                day_index(r, r.days[j]) - day_index(r, r.days[i]) < min_gap
                    => (covered(s, cy_id, r.days[i]) = 0 \/ covered(s, cy_id, r.days[j]) = 0)

\* RequiredDayVisitConstraint applied to the yards without per_week only
RequiredDayVisitNoPerWeek(r, s, cy_id) ==
    LET cy == car_yards(r, cy_id)
        required_day_coverage == Days(r) \cap cy.required_days
    IN  (has_required_days(cy) /\ ~has_per_week(cy) /\ required_day_coverage # {})
            => \E day \in required_day_coverage : covered(s, cy_id, day) = 1

\* lines 635-646: with required_days and per_week, one visit is on a required day
RequiredDayVisitConstraint(r, s, cy_id) ==
    LET cy == car_yards(r, cy_id)
        required_day_coverage == Days(r) \cap cy.required_days
    IN  (has_required_days(cy) /\ has_per_week(cy) /\ required_day_coverage # {})
            => \E day \in required_day_coverage : covered(s, cy_id, day) = 1

Abs(n) == IF n < 0 THEN -n ELSE n

\* LinkedYardConstraint with the gap test off by one day
LinkedGapOffByOne(r, s) ==
    \A p \in link_pairs(r) :
        IF p[3] <= 0
        THEN \A day \in Days(r) : covered(s, p[1], day) = covered(s, p[2], day)
        ELSE \A day_a \in Days(r) : \A day_b \in Days(r) :
                Abs(day_index(r, day_a) - day_index(r, day_b)) < p[3] - 1
                    => (covered(s, p[1], day_a) = 0 \/ covered(s, p[2], day_b) = 0)

\* lines 648-666: linked yards are visited together (gap 0) or gap days apart
LinkedYardConstraint(r, s) ==
    \A p \in link_pairs(r) :
        LET source_id == p[1]
            target_id == p[2]
            gap_days == p[3]
        IN  IF gap_days <= 0
            THEN \A day \in Days(r) :
                    covered(s, source_id, day) = covered(s, target_id, day)
            ELSE \A day_a \in Days(r) : \A day_b \in Days(r) :
                    Abs(day_index(r, day_a) - day_index(r, day_b)) < gap_days
                        => (covered(s, source_id, day_a) = 0
                            \/ covered(s, target_id, day_b) = 0)

\* lines 435-476: the employee works this yard and no other yard that day
emp_single_yard(r, s, emp_id, cy_id, day) ==
    LET other_yards_worked ==
            SumF([o \in YardIds(r) \ {cy_id} |-> x(s, emp_id, o, day)],
                 YardIds(r) \ {cy_id})
    IN  IF x(s, emp_id, cy_id, day) = 1 /\ other_yards_worked = 0 THEN 1 ELSE 0

\* lines 478-489: some employee of the yard works only this yard that day
any_employee_single_yard(r, s, cy_id, day) ==
    IF \E emp_id \in EmployeeIds(r) : emp_single_yard(r, s, emp_id, cy_id, day) = 1
    THEN 1 ELSE 0

\* lines 491-493
extra_employees(r, s, cy_id, day) ==
    employees_at_yard(r, s, cy_id, day)
        - car_yards(r, cy_id).min_employees * covered(s, cy_id, day)

\* lines 500-515: the values the constraints leave to penalty_amount
penalty_amounts(r, s, cy_id, day) ==
    LET n == Len(r.employees)
        extra == extra_employees(r, s, cy_id, day)
        cov == covered(s, cy_id, day)
        single == any_employee_single_yard(r, s, cy_id, day)
    IN  {penalty_amount \in 0..n :
            /\ penalty_amount <= extra
            /\ penalty_amount <= cov * n
            /\ penalty_amount <= single * n
            /\ penalty_amount >= extra - n * (1 - cov)
            /\ penalty_amount >= extra - n * (1 - single)}

\* lines 500-515 as a constraint on x and covered: penalty_amount has a value
ExtraEmployeeConstraint(r, s) ==
    \A cy_id \in YardIds(r) : \A day \in Days(r) :
        penalty_amounts(r, s, cy_id, day) # {}

-----------------------------------------------------------------------------
(* The objective, lines 670-768.  Its auxiliary variables (penalty amounts,  *)
(* overlap flags, min_shifts and max_shifts) take the values a maximal       *)
(* solution gives them.                                                      *)

OBJECTIVE_PRIORITY_WEIGHT == 10000
OBJECTIVE_QUALITY_WEIGHT == 10
OBJECTIVE_GROUPING_WEIGHT == 10
OBJECTIVE_BALANCE_WEIGHT == 50
OBJECTIVE_EXTRA_EMPLOYEE_WEIGHT == 2000
OBJECTIVE_PARTIAL_OVERLAP_WEIGHT == 2000
OBJECTIVE_ASSIGNMENT_PENALTY == 10
PRIORITY_WEIGHT_HIGH == 1000
PRIORITY_WEIGHT_MEDIUM == 100
PRIORITY_WEIGHT_LOW == 10
GROUPING_BONUS_BASE_WEIGHT == 50

\* The loops `for day in days` run over the positions of the horizon: a day
\* that is listed twice is summed twice.
DayPositions(r) == 1..Len(r.days)

YardDays(r) == YardIds(r) \X DayPositions(r)

Shifts(r) == EmployeeIds(r) \X YardIds(r) \X DayPositions(r)

priority_weights(priority) ==
    CASE priority = "high" -> PRIORITY_WEIGHT_HIGH
      [] priority = "medium" -> PRIORITY_WEIGHT_MEDIUM
      [] priority = "low" -> PRIORITY_WEIGHT_LOW
      [] OTHER -> 1

\* priority_score with every covered yard counted alike
PriorityUnweighted(r, s) ==
    SumF([k \in YardDays(r) |-> covered(s, k[1], r.days[k[2]])], YardDays(r))

\* lines 687-691
priority_score(r, s) ==
    SumF([k \in YardDays(r) |->
            covered(s, k[1], r.days[k[2]]) * priority_weights(car_yards(r, k[1]).priority)],
         YardDays(r))

\* quality_score without the ranking of the employees
QualityIgnored(r, s) == 0

\* lines 672-678
quality_score(r, s) ==
    SumF([k \in Shifts(r) |->
            x(s, k[1], k[2], r.days[k[3]]) * employees(r, k[1]).ranking],
         Shifts(r))

\* lines 694-699
shifts_per_employee(r, s, emp_id) ==
    SumF([k \in YardDays(r) |-> x(s, emp_id, k[1], r.days[k[2]])], YardDays(r))

\* lines 701-708, with max_shifts and min_shifts at the largest and smallest total
workload_balance(r, s) ==
    LET totals == {shifts_per_employee(r, s, emp_id) : emp_id \in EmployeeIds(r)}
        max_shifts == CHOOSE m \in totals : \A n \in totals : n <= m
        min_shifts == CHOOSE m \in totals : \A n \in totals : m <= n
    IN  max_shifts - min_shifts

\* lines 714-727
grouping_bonus(r, s) ==
    LET keys == EmployeeIds(r) \X DayPositions(r)
        yards_worked_in_group(cy_ids, emp_id, day) ==
            SumF([cy_id \in cy_ids \cap YardIds(r) |-> x(s, emp_id, cy_id, day)],
                 cy_ids \cap YardIds(r))
    IN  SumSeq([g \in 1..Len(r.yard_groups) |->
                    SumF([k \in keys |->
                            yards_worked_in_group(r.yard_groups[g], k[1], r.days[k[2]])
                                * GROUPING_BONUS_BASE_WEIGHT],
                         keys)],
               1, Len(r.yard_groups))

\* lines 731-736
total_assignments(r, s) ==
    SumF([k \in Shifts(r) |-> x(s, k[1], k[2], r.days[k[3]])], Shifts(r))

\* lines 183-198: the values the constraints leave to shared_var and joiner_var
shared_var_values(r, s, emp_id, cy_a, cy_b, day) ==
    {v \in 0..1 :
        /\ v <= x(s, emp_id, cy_a, day)
        /\ v <= x(s, emp_id, cy_b, day)
        /\ v >= x(s, emp_id, cy_a, day) + x(s, emp_id, cy_b, day) - 1}

\* joiner_var without its lower bound
JoinerVarUpTo(r, s, emp_id, cy_a, cy_b, day) ==
    {v \in 0..1 :
        /\ v <= x(s, emp_id, cy_b, day)
        /\ v + x(s, emp_id, cy_a, day) <= 1}

joiner_var_values(r, s, emp_id, cy_a, cy_b, day) ==
    {v \in 0..1 :
        /\ v <= x(s, emp_id, cy_b, day)
        /\ v + x(s, emp_id, cy_a, day) <= 1
        /\ v >= x(s, emp_id, cy_b, day) - x(s, emp_id, cy_a, day)}

\* lines 200-212: the values left to a variable that is at least each of bools
\* and at most their sum
any_values(bools) ==
    {v \in 0..1 :
        /\ \A emp_id \in DOMAIN bools : bools[emp_id] <= v
        /\ v <= SumF(bools, DOMAIN bools)}

\* lines 214-221: the values the constraints leave to mix_var
mix_var_values(r, s, cy_a, cy_b, day) ==
    LET shared_vars == {bools \in [EmployeeIds(r) -> 0..1] :
                            \A emp_id \in EmployeeIds(r) :
                                bools[emp_id] \in shared_var_values(r, s, emp_id, cy_a, cy_b, day)}
        joiner_vars == {bools \in [EmployeeIds(r) -> 0..1] :
                            \A emp_id \in EmployeeIds(r) :
                                bools[emp_id] \in joiner_var_values(r, s, emp_id, cy_a, cy_b, day)}
        share_any == UNION {any_values(bools) : bools \in shared_vars}
        joiner_any == UNION {any_values(bools) : bools \in joiner_vars}
    IN  {v \in 0..1 :
            \E sa \in share_any : \E ja \in joiner_any :
                v >= sa + ja - 1 /\ v <= sa /\ v <= ja}

\* lines 152-221: some employee works both yards and some employee works
\* cy_b without cy_a
partial_overlap_penalty(r, s, cy_a, cy_b, day) ==
    LET share_any == \E emp_id \in EmployeeIds(r) :
                        x(s, emp_id, cy_a, day) = 1 /\ x(s, emp_id, cy_b, day) = 1
        joiner_any == \E emp_id \in EmployeeIds(r) :
                        x(s, emp_id, cy_b, day) = 1 /\ x(s, emp_id, cy_a, day) = 0
    IN  IF share_any /\ joiner_any THEN 1 ELSE 0

\* lines 738-749: the pairs cy_a < cy_b of every day
partial_overlap_penalties(r, s) ==
    LET keys(cy_a) == {k \in YardIds(r) \X DayPositions(r) : cy_a < k[1]}
    IN  SumSeq([i \in 1..Len(r.car_yards) |->
                    SumF([k \in keys(r.car_yards[i].id) |->
                            partial_overlap_penalty(r, s, r.car_yards[i].id, k[1],
                                                    r.days[k[2]])],
                         keys(r.car_yards[i].id))],
               1, Len(r.car_yards))

\* lines 416-517: the sum of the penalty amounts
extra_employee_penalties(r, s) ==
    SumF([k \in YardDays(r) |->
            LET amounts == penalty_amounts(r, s, k[1], r.days[k[2]])
            IN  CHOOSE penalty_amount \in amounts :
                    \A other \in amounts : penalty_amount <= other],
         YardDays(r))

\* lines 751-768
Objective(r, s) ==
    priority_score(r, s) * OBJECTIVE_PRIORITY_WEIGHT
    + quality_score(r, s) * OBJECTIVE_QUALITY_WEIGHT
    + grouping_bonus(r, s) * OBJECTIVE_GROUPING_WEIGHT
    - workload_balance(r, s) * OBJECTIVE_BALANCE_WEIGHT
    - extra_employee_penalties(r, s) * OBJECTIVE_EXTRA_EMPLOYEE_WEIGHT
    - total_assignments(r, s) * OBJECTIVE_ASSIGNMENT_PENALTY
    - partial_overlap_penalties(r, s) * OBJECTIVE_PARTIAL_OVERLAP_WEIGHT

-----------------------------------------------------------------------------
(* The solver, lines 771-773: any assignment that satisfies the             *)
(* constraints.  The assignments are enumerated yard and day by yard and    *)
(* day, then yard by yard, each step keeping what its constraints allow.    *)

\* the domain of a work variable, lines 529-531
WorkValues(r, cy) == 0..total_minutes(cy)

\* The work variables a crew is tried with: an employee who is not assigned
\* works 0 (line 533), one assigned employee takes every value of the domain
\* and the other assigned employees every value within a minute of it (lines
\* 578-579); WorkConstraint then decides.
WorkCandidates(r, cy_id, crew) ==
    LET E == EmployeeIds(r)
        assigned == {emp_id \in E : crew[emp_id] = 1}
    IN  IF assigned = {} THEN {[emp_id \in E |-> 0]}
        ELSE LET lead == CHOOSE emp_id \in assigned : TRUE
             IN  UNION {{[emp_id \in E |->
                            IF emp_id \notin assigned THEN 0
                            ELSE IF emp_id = lead THEN v ELSE w[emp_id]] :
                          w \in [assigned \ {lead} -> (v - 1)..(v + 1)]} :
                        v \in WorkValues(r, car_yards(r, cy_id))}

\* x and covered of one yard and day, decided by the constraints that read them
CrewSolutions(r, cy_id, day) ==
    {c \in [x : [EmployeeIds(r) -> {0, 1}], covered : {0, 1},
            work : {[emp_id \in EmployeeIds(r) |-> 0]}] :
        LET s == (<<cy_id, day>> :> c)
        IN  /\ RequiredDaysRestriction(r, s, cy_id, day)
            /\ EligibilityConstraint(r, s, cy_id, day)
            /\ CoverageConstraint(r, s, cy_id, day)}

\* the assignments of one yard and day
YardDaySolutions(r, cy_id, day) ==
    {c \in UNION {{[x |-> crew.x, covered |-> crew.covered, work |-> w] :
                        w \in WorkCandidates(r, cy_id, crew.x)} :
                    crew \in CrewSolutions(r, cy_id, day)} :
        WorkConstraint(r, (<<cy_id, day>> :> c), cy_id, day)}

RECURSIVE YardCandidates(_, _, _)
YardCandidates(r, cy_id, ds) ==
    IF ds = {} THEN {<<>>}
    ELSE LET day == CHOOSE d \in ds : TRUE
         IN  {(<<cy_id, day>> :> c) @@ f :
                c \in YardDaySolutions(r, cy_id, day),
                f \in YardCandidates(r, cy_id, ds \ {day})}

\* the assignments of one yard over the horizon
YardSolutions(r, cy_id) ==
    {f \in YardCandidates(r, cy_id, Days(r)) :
        /\ VisitCountConstraint(r, f, cy_id)
        /\ VisitGapConstraint(r, f, cy_id)
        /\ RequiredDayVisitConstraint(r, f, cy_id)}

RECURSIVE ModelCandidates(_, _)
ModelCandidates(r, ids) ==
    IF ids = {} THEN {<<>>}
    ELSE LET cy_id == CHOOSE c \in ids : TRUE
         IN  {f @@ g : f \in YardSolutions(r, cy_id),
                       g \in ModelCandidates(r, ids \ {cy_id})}

\* the feasible assignments of the request's model: those of the yards that
\* also satisfy the constraints reading several yards
Solutions(r) ==
    {s \in ModelCandidates(r, YardIds(r)) :
        /\ HoursConstraint(r, s)
        /\ LinkedYardConstraint(r, s)
        /\ ExtraEmployeeConstraint(r, s)}

\* the constraints of the model, lines 325-666, on one assignment
Feasible(r, s) ==
    /\ \A cy_id \in YardIds(r) :
        /\ \A day \in Days(r) :
            /\ RequiredDaysRestriction(r, s, cy_id, day)
            /\ EligibilityConstraint(r, s, cy_id, day)
            /\ CoverageConstraint(r, s, cy_id, day)
            /\ WorkConstraint(r, s, cy_id, day)
        /\ VisitCountConstraint(r, s, cy_id)
        /\ VisitGapConstraint(r, s, cy_id)
        /\ RequiredDayVisitConstraint(r, s, cy_id)
    /\ HoursConstraint(r, s)
    /\ LinkedYardConstraint(r, s)
    /\ ExtraEmployeeConstraint(r, s)

-----------------------------------------------------------------------------
(* Extraction, lines 777-815 *)

\* the (employee, yard, day) triples in the order of the loops of lines 779-781
AllTriples(r) ==
    LET nY == Len(r.car_yards)
        nD == Len(r.days)
    IN  [k \in 1..(Len(r.employees) * nY * nD) |->
            [employee_id |-> r.employees[((k - 1) \div (nY * nD)) + 1].id,
             car_yard_id |-> r.car_yards[(((k - 1) \div nD) % nY) + 1].id,
             day |-> r.days[((k - 1) % nD) + 1]]]

raw_assignments(r, s) ==
    LET Assigned(a) == x(s, a.employee_id, a.car_yard_id, a.day) = 1
    IN  SelectSeq(AllTriples(r), Assigned)

\* employee_day_minutes read back from the solver; the response divides by SCALE_FACTOR
hours_per_employee_day(r, s) ==
    [k \in EmployeeIds(r) \X Days(r) |-> total_minutes_worked(r, s, k[1], k[2])]

\* yards_covered: for every yard and day that has an assignment, the list of
\* the employee ids of its assignments
yards_covered(r, s) ==
    LET raw == raw_assignments(r, s)
        keys == {<<raw[i].car_yard_id, raw[i].day>> : i \in 1..Len(raw)}
        At(k) == LET Here(a) == a.car_yard_id = k[1] /\ a.day = k[2]
                 IN  SelectSeq(raw, Here)
    IN  [k \in keys |-> [i \in 1..Len(At(k)) |-> At(k)[i].employee_id]]

-----------------------------------------------------------------------------
(* Time blocks, lines 817-907.  A time of day is its number of seconds after *)
(* midnight; a request gives it as <<hour, minute>>, and the response prints *)
(* it to the minute.                                                         *)

DEFAULT_EARLIEST_START_HOUR == 6
DEFAULT_EARLIEST_START_MINUTE == 0
DEFAULT_PRIORITY_RANK == 3
SecondsPerMinute == 60
SecondsPerHour == 3600
SecondsPerDay == 86400

\* datetime.time(hour, minute)
time(hour, minute) == hour * SecondsPerHour + minute * SecondsPerMinute

\* line 817
default_start(r) ==
    IF r.earliest_start_time # None
    THEN time(r.earliest_start_time[1], r.earliest_start_time[2])
    ELSE time(DEFAULT_EARLIEST_START_HOUR, DEFAULT_EARLIEST_START_MINUTE)

\* lines 820-823: the date is dropped, so the sum is taken on the 24 hour clock;
\* the minutes, a float in the code, are given in seconds
add_minutes(base, seconds) == (base + seconds) % SecondsPerDay

\* time.isoformat(timespec="minutes"): the minute of the day
isoformat(t) == t \div SecondsPerMinute

\* lines 828-833 and 852-853
priority_rank(priority) ==
    CASE priority = "high" -> 0
      [] priority = "medium" -> 1
      [] priority = "low" -> 2
      [] OTHER -> DEFAULT_PRIORITY_RANK

\* line 864
earliest_allowed(r, cy) ==
    IF cy.startTime # None THEN time(cy.startTime[1], cy.startTime[2])
    ELSE default_start(r)

\* a sort key without the priority rank
SortKeyUnranked(r, cy_id) ==
    <<earliest_allowed(r, car_yards(r, cy_id)), 0, cy_id>>

\* lines 850-855: the sort key of a yard
SortKey(r, cy_id) ==
    <<earliest_allowed(r, car_yards(r, cy_id)),
      priority_rank(car_yards(r, cy_id).priority), cy_id>>

\* the order of Python tuples
TupleLess(a, b) ==
    \/ a[1] < b[1]
    \/ a[1] = b[1] /\ a[2] < b[2]
    \/ a[1] = b[1] /\ a[2] = b[2] /\ a[3] < b[3]

\* lines 807-809: the yards that have assignments on the day
day_assignments(covered_by, day) ==
    {k[1] : k \in {q \in DOMAIN covered_by : q[2] = day}}

\* lines 848-856: the yards in the order of their sort keys
RECURSIVE day_yards(_, _)
day_yards(r, ids) ==
    IF ids = {} THEN <<>>
    ELSE LET first == CHOOSE a \in ids :
                        \A b \in ids \ {a} : TupleLess(SortKey(r, a), SortKey(r, b))
         IN  <<first>> \o day_yards(r, ids \ {first})

MaxOf(S) == CHOOSE m \in S : \A n \in S : n <= m

\* the time of the yard without the division by the employees
PerEmployeeWhole(cy, employee_count) ==
    (cy.hours_required * SecondsPerHour) \div QuartersPerHour

\* lines 872-873 and 891: hours_required / employee_count as seconds
per_employee_seconds(cy, employee_count) ==
    (cy.hours_required * SecondsPerHour) \div (QuartersPerHour * employee_count)

\* lines 859-907: the blocks of the yards ys of a day, in order;
\* availability[emp_id] is availability.get(emp_id, default_start)
\* covered_by is yards_covered
RECURSIVE PlaceYards(_, _, _, _, _)
PlaceYards(r, covered_by, day, ys, availability) ==
    IF ys = <<>> THEN <<>>
    ELSE LET cy_id == Head(ys)
             cy == car_yards(r, cy_id)
             employee_ids == covered_by[<<cy_id, day>>]
             employee_count == Len(employee_ids)
             proposed_start ==
                MaxOf({earliest_allowed(r, cy)}
                        \cup {availability[emp_id] : emp_id \in RangeOf(employee_ids)})
             per_employee == per_employee_seconds(cy, employee_count)
             finish_time == add_minutes(proposed_start, per_employee)
             released == add_minutes(finish_time, r.travel_buffer_minutes * SecondsPerMinute)
             block == [car_yard_id |-> cy_id, day |-> day,
                       start_time |-> isoformat(proposed_start),
                       finish_time |-> isoformat(finish_time),
                       employees |-> employee_ids,
                       minutes_per_employee |-> per_employee]
         IN  <<block>> \o
             PlaceYards(r, covered_by, day, Tail(ys),
                        [emp_id \in DOMAIN availability |->
                            IF emp_id \in RangeOf(employee_ids) THEN released
                            ELSE availability[emp_id]])

\* lines 843-907: the blocks of the days from the i-th on
RECURSIVE TimeblocksFrom(_, _, _)
TimeblocksFrom(r, covered_by, i) ==
    IF i > Len(r.days) THEN <<>>
    ELSE PlaceYards(r, covered_by, r.days[i],
                    day_yards(r, day_assignments(covered_by, r.days[i])),
                    [emp_id \in EmployeeIds(r) |-> default_start(r)])
            \o TimeblocksFrom(r, covered_by, i + 1)

yard_timeblocks(r, s) == TimeblocksFrom(r, yards_covered(r, s), 1)

\* lines 961-983: the assignments with the times of their yard's block
assignments(r, s) ==
    LET raw == raw_assignments(r, s)
        blocks == yard_timeblocks(r, s)
        Timing(a) == {j \in 1..Len(blocks) :
                        blocks[j].car_yard_id = a.car_yard_id /\ blocks[j].day = a.day}
        yard_timing_map(a) == blocks[MaxOf(Timing(a))]
    IN  [i \in 1..Len(raw) |->
            [employee_id |-> raw[i].employee_id,
             car_yard_id |-> raw[i].car_yard_id,
             day |-> raw[i].day,
             start_time |-> IF Timing(raw[i]) = {} THEN None
                            ELSE yard_timing_map(raw[i]).start_time,
             finish_time |-> IF Timing(raw[i]) = {} THEN None
                             ELSE yard_timing_map(raw[i]).finish_time]]

-----------------------------------------------------------------------------
(* The response, lines 1014-1027 *)

\* lines 985-1012: for every listed day the schedules of its blocks, in the
\* order of the blocks (the names of the workers are left out)
roster_structure(r, blocks) ==
    LET YardSchedule(block) == [car_yard_id |-> block.car_yard_id,
                                start_time |-> block.start_time,
                                finish_time |-> block.finish_time]
        roster_by_day(day) == SelectSeq(blocks, LAMBDA block : block.day = day)
    IN  [i \in 1..Len(r.days) |->
            [day |-> r.days[i],
             yards |-> [j \in 1..Len(roster_by_day(r.days[i])) |->
                            YardSchedule(roster_by_day(r.days[i])[j])]]]

ScheduleResponse(r, st, s) ==
    [status |-> IF st = "OPTIMAL" THEN "optimal" ELSE "feasible",
     assignments |-> assignments(r, s),
     roster |-> roster_structure(r, yard_timeblocks(r, s)),
     yard_timeblocks |-> yard_timeblocks(r, s),
     yards_covered |-> yards_covered(r, s),
     hours_per_employee_day |-> hours_per_employee_day(r, s)]

-----------------------------------------------------------------------------
(* The requests the model draws from.  The families that vary the          *)
(* attributes hold one or two employees and one or two yards; the uniform   *)
(* family holds up to MaxEmployees employees and MaxYards yards.            *)

AllDays == 1..MaxDays

Horizon(n) == [i \in 1..n |-> i]

Horizons == {Horizon(n) : n \in 1..MaxDays}

Ranking(i) == IF i % 3 = 1 THEN 10 ELSE IF i % 3 = 2 THEN 5 ELSE 7

SeqsUpTo(S, n) == UNION {[1..k -> S] : k \in 1..n}

\* employees with ids 1, 2, ... from profiles <<available_days, not_region>>
EmployeesOf(ps) ==
    [i \in 1..Len(ps) |-> Employee(i, Ranking(i), ps[i][1], ps[i][2])]

FullTime == <<AllDays, NoRegion>>

\* a yard without frequency attributes
PlainYard(id, region, min_employees, max_employees, hours_required) ==
    CarYard(id, "high", region, {}, None, None, min_employees, max_employees,
            hours_required)

\* a yard with frequency attributes that takes one or two employees for one hour
FrequencyYard(id, required_days, per_week, linked_yard) ==
    CarYard(id, "medium", "central", required_days, per_week, linked_yard, 1, 2, 4)

\* Staffing: availability, regions, crew sizes and hours against a 3 hour day
StaffProfiles == {FullTime, <<{1}, NoRegion>>, <<AllDays, "north">>}

\* <<region, <<min_employees, max_employees, hours_required>>>>
StaffYardProfiles ==
    {"north", "south"} \X {<<1, 1, 5>>, <<1, 2, 5>>, <<1, 2, 16>>, <<2, 2, 16>>}

StaffYardsOf(ps) ==
    [i \in 1..Len(ps) |-> PlainYard(i, ps[i][1], ps[i][2][1], ps[i][2][2], ps[i][2][3])]

StaffingRequests ==
    {ScheduleRequest(EmployeesOf(es), StaffYardsOf(ys), Horizon(MaxDays - 1), <<>>, 12) :
        es \in SeqsUpTo(StaffProfiles, 2),
        ys \in SeqsUpTo(StaffYardProfiles, 2)}

\* Frequency: one yard with required days and weekly visits, over every horizon
RequiredDayOptions == {{}, {1}, {2}, {1, MaxDays}}

PerWeekOptions == {None} \cup ((0..MaxVisits) \X (0..MaxGap))

FrequencyRequests ==
    {ScheduleRequest(EmployeesOf(<<FullTime, <<{1}, NoRegion>>>>),
                     <<FrequencyYard(1, rd, pw, None)>>, ds, <<>>, 28) :
        rd \in RequiredDayOptions, pw \in PerWeekOptions, ds \in Horizons}

\* Links: two yards, the first declares a link (to the second, to itself or to
\* an unknown id), the second may declare the link back
UnknownYardId == MaxYards + 7

LinkOptions ==
    {<<2, g>> : g \in (-1)..MaxGap} \cup {<<1, 1>>, <<UnknownYardId, 1>>, <<UnknownYardId, -1>>}

BackLinkOptions == {None} \cup {<<1, g>> : g \in 0..MaxGap}

LinkRequests ==
    {ScheduleRequest(EmployeesOf(<<FullTime, FullTime>>),
                     <<FrequencyYard(1, rd1, pw1, l1), FrequencyYard(2, rd2, pw2, l2)>>,
                     Horizon(MaxDays), <<>>, 28) :
        rd1 \in {{}, {2}, {1, 2}}, rd2 \in {{}, {1}},
        pw1 \in {None, <<0, 0>>, <<1, 0>>, <<2, 1>>}, pw2 \in {None, <<2, 1>>},
        l1 \in LinkOptions, l2 \in BackLinkOptions}

\* Malformed requests: each part of the request is well formed or not,
\* and the employees can or cannot staff the yards
MalformedRequests ==
    {ScheduleRequest(es, ys, ds, gs, 28) :
        es \in {<<>>,
                <<Employee(1, 10, AllDays, NoRegion), Employee(1, 5, AllDays, NoRegion)>>,
                EmployeesOf(<<FullTime, FullTime>>),
                EmployeesOf(<<<<{}, NoRegion>>>>)},
        ys \in {<<>>,
                <<FrequencyYard(1, {1}, None, None), FrequencyYard(1, {}, None, None)>>,
                <<FrequencyYard(1, {1}, None, None), PlainYard(2, "north", 2, 1, 4)>>,
                <<FrequencyYard(1, {1}, None, None), FrequencyYard(2, {}, None, None)>>,
                <<FrequencyYard(1, {}, <<MaxDays + 1, 0>>, None)>>},
        ds \in {<<>>, Horizon(MaxDays)},
        gs \in {<<>>, <<{1}>>, <<{1}, {1, UnknownYardId}>>}}

\* Uniform: n full-time employees, m yards that each take exactly k employees
\* on their required day
UniformRequests ==
    {ScheduleRequest(EmployeesOf([i \in 1..n |-> FullTime]),
                     [i \in 1..m |->
                        CarYard(i, "low", "south", {((i - 1) % MaxDays) + 1}, None, None,
                                k, k, 5)],
                     Horizon(MaxDays), <<>>, 12) :
        n \in 1..MaxEmployees, m \in 1..MaxYards, k \in 1..MaxEmployees}

\* Mandatory: a yard that must be visited, next to an optional yard in another
\* region, with employees who may be unable to work at the first
MandatoryProfiles == {FullTime, <<{1}, NoRegion>>, <<AllDays, "central">>}

MandatoryRequests ==
    {ScheduleRequest(EmployeesOf(es),
                     <<FrequencyYard(1, rd, pw, l), PlainYard(2, "north", 1, 1, 5)>>,
                     Horizon(MaxDays - 1), <<>>, 12) :
        es \in SeqsUpTo(MandatoryProfiles, 2),
        rd \in {{}, {2}, {MaxDays}}, pw \in {None, <<1, 0>>}, l \in {None, <<2, 0>>}}

\* Timetable: one day, two optional yards of one hour or an hour and a quarter
\* with or without a start time of their own, one or two employees
StartTimeOptions == {None, <<7, 0>>, <<22, 30>>}

TimetableRequests ==
    {WithTimes(ScheduleRequest(EmployeesOf(es),
                               <<WithStartTime(PlainYard(1, "north", 1, 2, 4), t1),
                                 WithStartTime(PlainYard(2, "north", 1, 2, h2), t2)>>,
                               Horizon(1), <<>>, 12),
               earliest, buffer) :
        es \in {<<FullTime>>, <<FullTime, FullTime>>},
        t1 \in StartTimeOptions, t2 \in StartTimeOptions, h2 \in {4, 5},
        earliest \in {None, <<8, 0>>}, buffer \in {0, 30, 45}}

\* Repeated days: request.days is a list that is not checked for repeats; one
\* yard with or without frequency attributes, over horizons that list day 1 twice
RepeatedDayHorizons == {<<1, 1>>, <<1, 2, 1>>}

RepeatedDayRequests ==
    {ScheduleRequest(EmployeesOf(es), <<FrequencyYard(1, rd, pw, None)>>, ds, <<>>, 28) :
        es \in {<<FullTime>>, <<FullTime, FullTime>>},
        rd \in {{}, {1}}, pw \in {None, <<1, 0>>, <<2, 0>>, <<2, 1>>},
        ds \in RepeatedDayHorizons}

\* Minimal: one employee who is available on day 1 only, one yard for exactly
\* one employee, day 1 scheduled
MinimalRequests ==
    {ScheduleRequest(EmployeesOf(<<<<{1}, NoRegion>>>>),
                     <<CarYard(1, p, "central", {}, None, None, 1, 1, 8)>>,
                     Horizon(1), <<>>, 28) :
        p \in {"high", "medium", "low"}}

\* Crowded day: one day, three employees, an optional yard for one employee
\* and, after it, yards that all three employees must visit together
\* the least number of partial overlaps that cost more than the coverage of
\* a yard of low priority is worth
CrowdedYards ==
    (OBJECTIVE_PRIORITY_WEIGHT * PRIORITY_WEIGHT_LOW) \div OBJECTIVE_PARTIAL_OVERLAP_WEIGHT + 1

CrowdedEmployees == 3

CrowdedRequests ==
    {WithTimes(ScheduleRequest(EmployeesOf([i \in 1..CrowdedEmployees |-> FullTime]),
                               [i \in 1..(n + 1) |->
                                    IF i = 1
                                    THEN CarYard(1, p, "central", {}, None, None, 1, 1, 4)
                                    ELSE CarYard(i, "low", "central", {}, <<1, 0>>, None,
                                                 CrowdedEmployees, CrowdedEmployees, 4)],
                               Horizon(1), <<>>, 76),
               <<5, 0>>, 0) :
        n \in {1, CrowdedYards}, p \in {"high", "low"}}

\* Priorities: one day, one employee with hours for one of two optional yards
\* of two priorities, and yard groups that name the second yard
\* the least number of groups whose bonus for one shift is worth more than the
\* step from low to medium priority
ManyGroups ==
    (OBJECTIVE_PRIORITY_WEIGHT * (PRIORITY_WEIGHT_MEDIUM - PRIORITY_WEIGHT_LOW))
        \div (OBJECTIVE_GROUPING_WEIGHT * GROUPING_BONUS_BASE_WEIGHT) + 1

GroupOptions == {<<>>, <<{2}>>, [g \in 1..ManyGroups |-> {2}]}

PriorityRequests ==
    {ScheduleRequest(EmployeesOf(<<FullTime>>),
                     <<CarYard(1, p1, "central", {}, None, None, 1, 1, 8),
                       CarYard(2, p2, "central", {}, None, None, 1, 1, 8)>>,
                     Horizon(1), gs, 12) :
        p1 \in {"high", "medium", "low"}, p2 \in {"high", "medium", "low"},
        gs \in GroupOptions}

\* Three yards: one day, one employee with hours for the first yard alone or
\* for the second and the third yard together
ThreeYardRequests ==
    {ScheduleRequest(EmployeesOf(<<FullTime>>),
                     <<CarYard(1, "high", "central", {}, None, None, 1, 1, 12),
                       CarYard(2, "medium", "central", {}, None, None, 1, 1, 4),
                       CarYard(3, p3, "central", {}, None, None, 1, 1, 4)>>,
                     Horizon(1), <<>>, 12) :
        p3 \in {"high", "medium", "low"}}

\* Order: one day, one employee, two optional yards of one hour that differ
\* in priority and in having a start time of their own
OrderRequests ==
    {ScheduleRequest(EmployeesOf(<<FullTime>>),
                     <<WithStartTime(CarYard(1, p1, "north", {}, None, None, 1, 1, 4), t1),
                       WithStartTime(CarYard(2, p2, "north", {}, None, None, 1, 1, 4), t2)>>,
                     Horizon(1), <<>>, 12) :
        p1 \in {"high", "low"}, p2 \in {"high", "low"},
        t1 \in {None, <<7, 0>>}, t2 \in {None, <<7, 0>>}}

\* Grouped: two employees, two yards for one employee each that form a yard
\* group, named once or twice, over one or two days
GroupedRequests ==
    {ScheduleRequest(EmployeesOf(<<FullTime, FullTime>>),
                     <<CarYard(1, "medium", "north", {}, pw, None, 1, 1, 4),
                       CarYard(2, "medium", "north", {}, pw, None, 1, 1, 4)>>,
                     Horizon(n), gs, 12) :
        pw \in {None, <<1, 0>>}, n \in 1..2, gs \in {<<{1, 2}>>, <<{1, 2}, {1, 2}>>}}

\* Overlong: a yard of 3, 4 or 7 hours for up to one or two employees, with or
\* without mandatory coverage, next to an optional yard of one hour, with one
\* or two employees who may work 3 hours a day
OverlongRequests ==
    {ScheduleRequest(EmployeesOf(es),
                     <<CarYard(1, "high", "north", rd, pw, l, 1, mx, h),
                       CarYard(2, "low", "north", {}, None, None, 1, 1, 4)>>,
                     Horizon(2), <<>>, 12) :
        es \in {<<FullTime>>, <<FullTime, FullTime>>},
        rd \in {{}, {1}}, pw \in {None, <<1, 0>>}, l \in {None, <<2, 0>>},
        mx \in 1..2, h \in {12, 16, 28}}

Requests ==
    StaffingRequests \cup FrequencyRequests \cup LinkRequests
        \cup MalformedRequests \cup UniformRequests \cup MandatoryRequests
        \cup TimetableRequests \cup RepeatedDayRequests \cup MinimalRequests
        \cup CrowdedRequests \cup PriorityRequests \cup ThreeYardRequests
        \cup OrderRequests \cup GroupedRequests \cup OverlongRequests

-----------------------------------------------------------------------------
(* The run of solve_roster on one request *)

Init ==
    /\ request \in Requests
    /\ phase = "Received"
    /\ error = NoError
    /\ model_created = FALSE
    /\ solver_calls = 0
    /\ status = "NONE"
    /\ solution = <<>>
    /\ response = <<>>

\* lines 244-293 raise
ValidateFail ==
    /\ phase = "Received"
    /\ InputError(request) # NoError
    /\ phase' = "Failed"
    /\ error' = InputError(request)
    /\ UNCHANGED <<request, model_created, solver_calls, status, solution, response>>

\* lines 244-293 pass
ValidateOk ==
    /\ phase = "Received"
    /\ InputError(request) = NoError
    /\ phase' = "Normalized"
    /\ UNCHANGED <<request, error, model_created, solver_calls, status, solution, response>>

\* lines 295-768 raise: the model exists (line 295) when the exception leaves
BuildModelFail ==
    /\ phase = "Normalized"
    /\ ModelError(request) # NoError
    /\ model_created' = TRUE
    /\ phase' = "Failed"
    /\ error' = ModelError(request)
    /\ UNCHANGED <<request, solver_calls, status, solution, response>>

\* lines 295-768: variables, constraints and objective are added
BuildModelOk ==
    /\ phase = "Normalized"
    /\ ModelError(request) = NoError
    /\ model_created' = TRUE
    /\ phase' = "Modeled"
    /\ UNCHANGED <<request, error, solver_calls, status, solution, response>>

\* OptimalSolutions without the comparison of the objective
OptimalAny(r, sols) == sols

\* the assignments of sols with the largest objective
OptimalSolutions(r, sols) ==
    LET scored == {<<Objective(r, s), s>> : s \in sols}
    IN  {p[2] : p \in {q \in scored : \A o \in scored : o[1] <= q[1]}}

\* What the solver can answer, as <<status, assignment>>: a maximal assignment,
\* an assignment found within the time limit, the proof that there is none, or
\* nothing in time
SolverOutcomes(r) ==
    LET sols == Solutions(r)
    IN  {<<"OPTIMAL", s>> : s \in OptimalSolutions(r, sols)}
        \cup {<<"FEASIBLE", s>> : s \in sols}
        \cup (IF sols = {} THEN {<<"INFEASIBLE", <<>>>>} ELSE {})
        \cup {<<"UNKNOWN", <<>>>>}

\* lines 771-773: the one call of the solver
Solve ==
    /\ phase = "Modeled"
    /\ \E o \in SolverOutcomes(request) :
        /\ status' = o[1]
        /\ solution' = o[2]
    /\ solver_calls' = solver_calls + 1
    /\ phase' = "Solved"
    /\ UNCHANGED <<request, error, model_created, response>>

\* Extract without the test of lines 791-795
ExtractUnchecked ==
    /\ phase = "Solved"
    /\ status \in {"OPTIMAL", "FEASIBLE"}
    /\ response' = ScheduleResponse(request, status, solution)
    /\ phase' = "Extracted"
    /\ UNCHANGED <<request, error, model_created, solver_calls, status, solution>>

\* lines 777-1012: the roster is built from the solver's values
Extract ==
    /\ phase = "Solved"
    /\ status \in {"OPTIMAL", "FEASIBLE"}
    /\ raw_assignments(request, solution) # <<>>
    /\ response' = ScheduleResponse(request, status, solution)
    /\ phase' = "Extracted"
    /\ UNCHANGED <<request, error, model_created, solver_calls, status, solution>>

\* lines 791-795: the solver's assignment holds no shift
ExtractEmpty ==
    /\ phase = "Solved"
    /\ status \in {"OPTIMAL", "FEASIBLE"}
    /\ raw_assignments(request, solution) = <<>>
    /\ phase' = "Failed"
    /\ error' = "No feasible assignments produced"
    /\ UNCHANGED <<request, model_created, solver_calls, status, solution, response>>

\* NoSolution going back to the model for another solve
NoSolutionRetry ==
    /\ phase = "Solved"
    /\ status \notin {"OPTIMAL", "FEASIBLE"}
    /\ phase' = "Modeled"
    /\ error' = "No feasible solution found"
    /\ UNCHANGED <<request, model_created, solver_calls, status, solution, response>>

\* lines 1028-1032
NoSolution ==
    /\ phase = "Solved"
    /\ status \notin {"OPTIMAL", "FEASIBLE"}
    /\ phase' = "Failed"
    /\ error' = "No feasible solution found"
    /\ UNCHANGED <<request, model_created, solver_calls, status, solution, response>>

\* lines 1014-1027
Return ==
    /\ phase = "Extracted"
    /\ phase' = "Returned"
    /\ UNCHANGED <<request, error, model_created, solver_calls, status, solution, response>>

Next ==
    \/ ValidateFail
    \/ ValidateOk
    \/ BuildModelFail
    \/ BuildModelOk
    \/ Solve
    \/ Extract
    \/ ExtractEmpty
    \/ NoSolution
    \/ Return

Spec == Init /\ [][Next]_vars

-----------------------------------------------------------------------------
(* Properties of the returned roster *)

Returned == phase = "Returned"

\* the employees the response assigns to a yard on a day
AssignedTo(cy_id, day) ==
    {response.assignments[i].employee_id :
        i \in {j \in 1..Len(response.assignments) :
                /\ response.assignments[j].car_yard_id = cy_id
                /\ response.assignments[j].day = day}}

\* the days of the horizon on which the response staffs the yard
CoveredDays(cy_id) == {day \in Days(request) : AssignedTo(cy_id, day) # {}}

\* C1: in a returned roster a covered yard has between min_employees and
\* max_employees assigned workers on that day, and a yard that is not covered
\* has no assigned worker and no work minutes
C1_CoverageBounds ==
    Returned =>
        \A cy_id \in YardIds(request) : \A day \in Days(request) :
            LET cy == car_yards(request, cy_id)
                count == Cardinality(AssignedTo(cy_id, day))
            IN  IF covered(solution, cy_id, day) = 1
                THEN cy.min_employees <= count /\ count <= cy.max_employees
                ELSE /\ count = 0
                     /\ \A emp_id \in EmployeeIds(request) :
                            work_minutes(solution, emp_id, cy_id, day) = 0

\* a returned roster with a yard staffed by min_employees < max_employees
\* workers on one day, and a yard left uncovered on a day
C1_Witness ==
    /\ Returned
    /\ \E cy_id \in YardIds(request) : \E day \in Days(request) :
        /\ covered(solution, cy_id, day) = 1
        /\ Cardinality(AssignedTo(cy_id, day)) = car_yards(request, cy_id).min_employees
        /\ car_yards(request, cy_id).min_employees < car_yards(request, cy_id).max_employees
    /\ \E cy_id \in YardIds(request) : \E day \in Days(request) :
        covered(solution, cy_id, day) = 0

\* C2: no returned assignment is on a day outside the worker's available_days
\* or at a yard whose region is the worker's not_region
C2_Eligibility ==
    Returned =>
        \A i \in 1..Len(response.assignments) :
            LET a == response.assignments[i]
                emp == employees(request, a.employee_id)
            IN  /\ a.day \in emp.available_days
                /\ car_yards(request, a.car_yard_id).region # emp.not_region

\* a returned roster that assigns a worker who cannot work every day of the
\* horizon and a worker who is excluded from the region of a yard of the request
C2_Witness ==
    /\ Returned
    /\ \E i \in 1..Len(response.assignments) :
        ~(Days(request) \subseteq
            employees(request, response.assignments[i].employee_id).available_days)
    /\ \E i \in 1..Len(response.assignments) : \E cy \in RangeOf(request.car_yards) :
        cy.region = employees(request, response.assignments[i].employee_id).not_region

\* C3: in a returned roster every worker's minutes of a day, summed over the
\* yards, are at most int(max_hours_per_day * 60), and every value of
\* stats.hours_per_employee_day (minutes / 60) is at most max_hours_per_day
C3_DailyHours ==
    Returned =>
        \A emp_id \in EmployeeIds(request) : \A day \in Days(request) :
            /\ total_minutes_worked(request, solution, emp_id, day) <= max_minutes(request)
            /\ response.hours_per_employee_day[<<emp_id, day>>] * QuartersPerHour
                    <= request.max_hours_per_day * MINUTES_PER_HOUR

\* a returned roster in which a worker works at two yards on one day
C3_Witness ==
    /\ Returned
    /\ \E emp_id \in EmployeeIds(request) : \E day \in Days(request) :
        \E a \in YardIds(request) : \E b \in YardIds(request) :
            /\ a # b
            /\ emp_id \in AssignedTo(a, day) \cap AssignedTo(b, day)
            /\ response.hours_per_employee_day[<<emp_id, day>>]
                    > total_minutes(car_yards(request, a)) \div 2

\* the number of visits a yard's attributes ask for
RequiredVisits(cy) == IF has_per_week(cy) THEN cy.per_week[1] ELSE 1

\* C4: in a returned roster a yard that declares per_week or required_days is
\* covered on exactly its required number of days (the per_week count, or 1),
\* and a yard that declares neither and is not linked on at most one day
C4_VisitCount ==
    Returned =>
        \A cy \in RangeOf(request.car_yards) :
            IF has_per_week(cy) \/ has_required_days(cy)
            THEN Cardinality(CoveredDays(cy.id)) = RequiredVisits(cy)
            ELSE cy.id \notin linked_yard_ids(request)
                    => Cardinality(CoveredDays(cy.id)) <= 1

\* C4 for the yards that are not linked
C4_VisitCountUnlinked ==
    Returned =>
        \A cy \in RangeOf(request.car_yards) :
            cy.id \notin linked_yard_ids(request) =>
                IF has_per_week(cy) \/ has_required_days(cy)
                THEN Cardinality(CoveredDays(cy.id)) = RequiredVisits(cy)
                ELSE Cardinality(CoveredDays(cy.id)) <= 1

\* C5: in a returned roster any two covered days of a yard with
\* per_week = (visits, min_gap), visits > 1, are min_gap apart in the horizon
C5_VisitGap ==
    Returned =>
        \A cy \in RangeOf(request.car_yards) :
            (has_per_week(cy) /\ cy.per_week[1] > 1) =>
                \A d1 \in CoveredDays(cy.id) : \A d2 \in CoveredDays(cy.id) :
                    d1 # d2 => Abs(day_index(request, d1) - day_index(request, d2))
                                    >= cy.per_week[2]

\* a returned roster with a yard that asks for two visits two days apart
C5_Witness ==
    /\ Returned
    /\ \E cy \in RangeOf(request.car_yards) :
        /\ cy.per_week = <<2, 2>>
        /\ Cardinality(CoveredDays(cy.id)) = 2

\* C6: in a returned roster a yard with required_days and no per_week is covered,
\* and has workers, only on its required days
C6_RequiredDaysOnly ==
    Returned =>
        \A cy \in RangeOf(request.car_yards) :
            (has_required_days(cy) /\ ~has_per_week(cy)) =>
                \A day \in Days(request) :
                    (covered(solution, cy.id, day) = 1 \/ AssignedTo(cy.id, day) # {})
                        => day \in cy.required_days

\* a returned roster that covers, on its required day, a yard whose
\* required_days leave out other days of the horizon
C6_Witness ==
    /\ Returned
    /\ \E cy \in RangeOf(request.car_yards) :
        /\ has_required_days(cy) /\ ~has_per_week(cy)
        /\ ~(Days(request) \subseteq cy.required_days)
        /\ CoveredDays(cy.id) \cap cy.required_days # {}

\* C7: in a returned roster a yard with required_days and per_week has a covered
\* day that is one of its required days
C7_RequiredDayVisit ==
    Returned =>
        \A cy \in RangeOf(request.car_yards) :
            (has_required_days(cy) /\ has_per_week(cy)) =>
                CoveredDays(cy.id) \cap cy.required_days # {}

\* a returned roster in which such a yard is covered on a required day and also
\* on a day that is not required
C7_Witness ==
    /\ Returned
    /\ \E cy \in RangeOf(request.car_yards) :
        /\ has_required_days(cy) /\ has_per_week(cy)
        /\ CoveredDays(cy.id) \cap cy.required_days # {}
        /\ CoveredDays(cy.id) \ cy.required_days # {}

\* C8: in a returned roster each yard of a linked pair has exactly one covered
\* day; with gap 0 the two yards are covered on the same days, with gap g > 0
\* their covered days are at least g apart in the horizon
C8_LinkedYards ==
    Returned =>
        \A cy \in RangeOf(request.car_yards) :
            HasLink(request, cy) =>
                LET a == cy.id
                    b == cy.linked_yard[1]
                    g == cy.linked_yard[2]
                IN  /\ Cardinality(CoveredDays(a)) = 1
                    /\ Cardinality(CoveredDays(b)) = 1
                    /\ g = 0 => CoveredDays(a) = CoveredDays(b)
                    /\ g > 0 => \A da \in CoveredDays(a) : \A db \in CoveredDays(b) :
                            Abs(day_index(request, da) - day_index(request, db)) >= g

\* a returned roster of two yards linked with a gap of two days
C8_Witness ==
    /\ Returned
    /\ \E cy \in RangeOf(request.car_yards) :
        /\ HasLink(request, cy)
        /\ cy.linked_yard[2] = 2
        /\ cy.linked_yard[1] # cy.id
        /\ CoveredDays(cy.id) # {}

-----------------------------------------------------------------------------
(* Rejection of malformed requests *)

\* the details of the validation errors (every exception but the two raised
\* after the solver has run)
ValidationErrors ==
    {"Duplicate employee IDs", "Duplicate car yard IDs",
     "At least one employee is required", "At least one car yard is required",
     "At least one day is required", "min_employees > max_employees",
     "Yard group contains invalid yard IDs", "visits per week exceed scheduled days",
     "required_days not in scheduled days", "Linked yard gap must be non-negative",
     "Linked yard cannot require more than one visit", "Conflicting linked yard gaps",
     "Linked yard cannot have multiple required days"}

\* the request is on its way to a validation error and the solver has not run
RejectedUnsolved ==
    /\ solver_calls = 0
    /\ phase \in {"Received", "Normalized", "Failed"}
    /\ phase = "Failed" => error \in ValidationErrors
    /\ phase # "Failed" => ENABLED Next

Malformed(r) ==
    \/ \E i \in 1..Len(r.employees) : \E j \in 1..Len(r.employees) :
            i # j /\ r.employees[i].id = r.employees[j].id
    \/ \E i \in 1..Len(r.car_yards) : \E j \in 1..Len(r.car_yards) :
            i # j /\ r.car_yards[i].id = r.car_yards[j].id
    \/ r.employees = <<>>
    \/ r.car_yards = <<>>
    \/ r.days = <<>>
    \/ \E cy \in RangeOf(r.car_yards) : cy.min_employees > cy.max_employees
    \/ \E g \in 1..Len(r.yard_groups) : \E id \in r.yard_groups[g] :
            \A cy \in RangeOf(r.car_yards) : cy.id # id
    \/ \E cy \in RangeOf(r.car_yards) :
            cy.per_week # None /\ cy.per_week[1] > Len(r.days)

\* C9: a request with duplicate ids, an empty list, min_employees >
\* max_employees, an unknown id in a yard group or more weekly visits than days
\* ends in a validation error, and the solver is never called for it
C9_MalformedRejected == Malformed(request) => RejectedUnsolved

\* a request that is rejected for its weekly visits, which the code checks last
\* and after the model exists
C9_Witness ==
    /\ Malformed(request)
    /\ phase = "Failed"
    /\ model_created
    /\ error = "visits per week exceed scheduled days"

\* the yard declares a link to a yard of the request (of any id list)
DeclaresLink(r, cy) ==
    cy.linked_yard # None /\ \E o \in RangeOf(r.car_yards) : o.id = cy.linked_yard[1]

WeeklyVisits(cy) == IF cy.per_week # None THEN cy.per_week[1] ELSE 1

LinkMalformed(r) ==
    \/ \E cy \in RangeOf(r.car_yards) : DeclaresLink(r, cy) /\ cy.linked_yard[2] < 0
    \/ \E a \in RangeOf(r.car_yards) : \E b \in RangeOf(r.car_yards) :
            /\ a.linked_yard # None /\ b.linked_yard # None
            /\ a.linked_yard[1] = b.id /\ b.linked_yard[1] = a.id
            /\ a.linked_yard[2] # b.linked_yard[2]
    \/ \E a \in RangeOf(r.car_yards) : \E b \in RangeOf(r.car_yards) :
            /\ a.linked_yard # None /\ a.linked_yard[1] = b.id
            /\ (WeeklyVisits(a) > 1 \/ WeeklyVisits(b) > 1)

\* C10: a request with a negative gap to a linked yard, with different gaps for
\* one pair declared from both sides, or with more than one weekly visit for a
\* yard of a linked pair ends in a validation error before the solver is called
C10_LinkRejected == LinkMalformed(request) => RejectedUnsolved

\* a request rejected because the yard its first yard links to asks for two visits
C10_Witness ==
    /\ LinkMalformed(request)
    /\ phase = "Failed"
    /\ error = "Linked yard cannot require more than one visit"
    /\ WeeklyVisits(request.car_yards[1]) <= 1
    /\ request.car_yards[2].linked_yard = None

-----------------------------------------------------------------------------
(* The degenerate success *)

\* the solver reported a solution
SolverSucceeded == status \in {"OPTIMAL", "FEASIBLE"}

-----------------------------------------------------------------------------
(* The phases of one run *)

\* the order of the phases of a run that does not fail
PhaseSuccession ==
    {<<"Received", "Normalized">>, <<"Normalized", "Modeled">>, <<"Modeled", "Solved">>,
     <<"Solved", "Extracted">>, <<"Extracted", "Returned">>}

\* a step moves to the next phase or fails, and the solver runs at most once
OrderedStep ==
    /\ \/ <<phase, phase'>> \in PhaseSuccession
       \/ phase \notin {"Returned", "Failed"} /\ phase' = "Failed"
    /\ solver_calls' <= 1
    /\ solver_calls' = 1 <=> (phase' \in {"Solved", "Extracted", "Returned"}
                                \/ (phase' = "Failed" /\ phase = "Solved"))

\* C12: the phases follow Received, Normalized, Modeled, Solved, Extracted,
\* Returned without repetition, the solver runs at most once, and a run fails
\* only with a validation error raised before any model variable or constraint
\* exists or with the no-solution error of an infeasible solve
C12_PhaseOrder ==
    [][/\ OrderedStep
       /\ phase' = "Failed" =>
            \/ error' \in ValidationErrors /\ ~model_created' /\ solver_calls' = 0
            \/ error' = "No feasible solution found" /\ status' = "INFEASIBLE"]_vars

\* C12 as the code has it: a validation error is raised before the solver runs,
\* from the input checks or while the model is built; the no-solution error
\* follows every solve that is neither optimal nor feasible; the no-assignments
\* error follows a solve whose solution assigns nobody
C12_PhaseOrderAmended ==
    [][/\ OrderedStep
       /\ phase' = "Failed" =>
            \/ /\ phase = "Received"
               /\ error' \in ValidationErrors /\ ~model_created' /\ solver_calls' = 0
            \/ /\ phase = "Normalized"
               /\ error' \in ValidationErrors /\ model_created' /\ solver_calls' = 0
            \/ /\ phase = "Solved" /\ ~SolverSucceeded
               /\ error' = "No feasible solution found"
            \/ /\ phase = "Solved" /\ SolverSucceeded
               /\ error' = "No feasible assignments produced"]_vars

\* a run rejected by a check made while the model is built
C12_Witness ==
    /\ phase = "Failed"
    /\ model_created
    /\ solver_calls = 0
    /\ error \in ValidationErrors

-----------------------------------------------------------------------------
(* All or nothing *)

\* the employee may work at the yard on the day (lines 402-412)
Eligible(emp, cy, day) ==
    day \in emp.available_days /\ cy.region # emp.not_region

\* the yard must be covered: it is linked, has required days, or asks for at
\* least one weekly visit
Mandatory(r, cy) ==
    \/ cy.id \in linked_yard_ids(r)
    \/ has_required_days(cy)
    \/ has_per_week(cy) /\ cy.per_week[1] >= 1

\* the days on which the mandatory visit may fall
AdmissibleDays(r, cy) ==
    IF has_required_days(cy) THEN Days(r) \cap cy.required_days ELSE Days(r)

\* on no admissible day are there min_employees eligible employees
Unstaffable(r, cy) ==
    \A day \in AdmissibleDays(r, cy) :
        Cardinality({i \in 1..Len(r.employees) : Eligible(r.employees[i], cy, day)})
            < cy.min_employees

\* C13: a request with a mandatory yard that cannot be staffed on any admissible
\* day fails with an error and returns no roster, whatever its other yards
C13_AllOrNothing ==
    (\E cy \in RangeOf(request.car_yards) : Mandatory(request, cy) /\ Unstaffable(request, cy))
        => /\ phase \notin {"Extracted", "Returned"}
           /\ response = <<>>
           /\ phase = "Solved" => ~SolverSucceeded
           /\ phase # "Failed" => ENABLED Next

\* a run that failed as infeasible although an optional yard of the request has
\* an eligible employee on some day
C13_Witness ==
    /\ phase = "Failed"
    /\ status = "INFEASIBLE"
    /\ error = "No feasible solution found"
    /\ \E cy \in RangeOf(request.car_yards) :
        Mandatory(request, cy) /\ Unstaffable(request, cy)
    /\ \E cy \in RangeOf(request.car_yards) :
        /\ ~Mandatory(request, cy)
        /\ ~Unstaffable(request, cy)

-----------------------------------------------------------------------------
(* The split of a yard's minutes *)

\* C14: in a returned solution the work minutes of the n employees assigned to a
\* covered yard on a day sum to the yard's minutes T, each is T div n or that
\* plus one, any two differ by at most 1, and an employee who is not assigned
\* has 0 work minutes there
C14_WorkSplit ==
    Returned =>
        \A cy_id \in YardIds(request) : \A day \in Days(request) :
            LET assigned == AssignedTo(cy_id, day)
                n == Cardinality(assigned)
                T == total_minutes(car_yards(request, cy_id))
                work(emp_id) == work_minutes(solution, emp_id, cy_id, day)
            IN  /\ \A emp_id \in EmployeeIds(request) \ assigned : work(emp_id) = 0
                /\ covered(solution, cy_id, day) = 1 =>
                    /\ n >= 1
                    /\ SumF([emp_id \in assigned |-> work(emp_id)], assigned) = T
                    /\ \A emp_id \in assigned :
                        work(emp_id) \in {T \div n, (T \div n) + 1}
                    /\ \A i \in assigned : \A j \in assigned :
                        Abs(work(i) - work(j)) <= 1
                    /\ Cardinality({emp_id \in assigned : work(emp_id) = (T \div n) + 1})
                            = T % n

\* a returned solution in which two employees split an odd number of minutes
C14_Witness ==
    /\ Returned
    /\ \E cy_id \in YardIds(request) : \E day \in Days(request) :
        /\ Cardinality(AssignedTo(cy_id, day)) = 2
        /\ total_minutes(car_yards(request, cy_id)) % 2 = 1
        /\ \E i \in AssignedTo(cy_id, day) : \E j \in AssignedTo(cy_id, day) :
            work_minutes(solution, i, cy_id, day)
                = work_minutes(solution, j, cy_id, day) + 1

-----------------------------------------------------------------------------
(* The timetable.  Times of the response are minutes of the day. *)

Blocks == response.yard_timeblocks

\* block j comes after block i in the timetable of one day of one employee
WorksAfter(i, j) ==
    /\ i < j
    /\ Blocks[i].day = Blocks[j].day
    /\ RangeOf(Blocks[i].employees) \cap RangeOf(Blocks[j].employees) # {}

\* C15: in a returned timetable a yard that an employee works after another
\* yard of the same day starts no earlier than the finish time of the earlier
\* yard plus travel_buffer_minutes
C15_TravelBuffer ==
    Returned =>
        \A i \in 1..Len(Blocks) : \A j \in 1..Len(Blocks) :
            WorksAfter(i, j) =>
                Blocks[j].start_time
                    >= Blocks[i].finish_time + request.travel_buffer_minutes

\* the block ends, and its employees are released, before midnight
ReleasedSameDay(b) ==
    b.start_time * SecondsPerMinute + b.minutes_per_employee
        + request.travel_buffer_minutes * SecondsPerMinute < SecondsPerDay

\* no day is listed twice in the horizon of the request
DistinctDays == Cardinality(Days(request)) = Len(request.days)

\* C15 for the earlier yards whose finish time plus buffer is before midnight,
\* over a horizon without repeated days
C15_TravelBufferSameDay ==
    (Returned /\ DistinctDays) =>
        \A i \in 1..Len(Blocks) : \A j \in 1..Len(Blocks) :
            (WorksAfter(i, j) /\ ReleasedSameDay(Blocks[i])) =>
                Blocks[j].start_time
                    >= Blocks[i].finish_time + request.travel_buffer_minutes

\* the example of C15: two yards of one hour, one employee, buffer 45, default
\* start 06:00 give 06:00-07:00 and a second start of 07:45
C15_Example ==
    /\ Returned
    /\ Len(request.employees) = 1
    /\ request.travel_buffer_minutes = 45
    /\ Len(Blocks) = 2
    /\ Blocks[1].start_time = 6 * 60 /\ Blocks[1].finish_time = 7 * 60
    /\ Blocks[2].start_time = 7 * 60 + 45

\* the minute of the day before which the yard may not start: its startTime,
\* or the request's earliest_start_time, or 06:00
EarliestMinute(cy) ==
    IF cy.startTime # None THEN cy.startTime[1] * 60 + cy.startTime[2]
    ELSE IF request.earliest_start_time # None
         THEN request.earliest_start_time[1] * 60 + request.earliest_start_time[2]
         ELSE 6 * 60

\* the default start as a minute of the day
DefaultMinute ==
    IF request.earliest_start_time # None
    THEN request.earliest_start_time[1] * 60 + request.earliest_start_time[2]
    ELSE 6 * 60

\* the blocks of the employee before block j on its day
EarlierBlocks(emp_id, j) ==
    {i \in 1..(j - 1) :
        Blocks[i].day = Blocks[j].day /\ emp_id \in RangeOf(Blocks[i].employees)}

\* the employee's availability for block j: the default start, or the finish
\* of the employee's previous yard plus the travel buffer
Availability(emp_id, j) ==
    IF EarlierBlocks(emp_id, j) = {} THEN DefaultMinute
    ELSE Blocks[MaxOf(EarlierBlocks(emp_id, j))].finish_time
            + request.travel_buffer_minutes

\* C16: the start of every block is the maximum of the yard's earliest allowed
\* time and the availability of each of its employees, so no yard starts
\* before its own startTime
C16_BlockStart ==
    Returned =>
        \A j \in 1..Len(Blocks) :
            LET cy == car_yards(request, Blocks[j].car_yard_id)
            IN  /\ Blocks[j].start_time
                    = MaxOf({EarliestMinute(cy)}
                            \cup {Availability(emp_id, j) :
                                    emp_id \in RangeOf(Blocks[j].employees)})
                /\ Blocks[j].start_time >= EarliestMinute(cy)

\* C16 with the availability taken on the 24 hour clock, over a horizon
\* without repeated days
C16_BlockStartOnClock ==
    (Returned /\ DistinctDays) =>
        \A j \in 1..Len(Blocks) :
            LET cy == car_yards(request, Blocks[j].car_yard_id)
            IN  /\ Blocks[j].start_time
                    = MaxOf({EarliestMinute(cy)}
                            \cup {IF EarlierBlocks(emp_id, j) = {} THEN DefaultMinute
                                  ELSE Availability(emp_id, j) % (24 * 60) :
                                    emp_id \in RangeOf(Blocks[j].employees)})
                /\ Blocks[j].start_time >= EarliestMinute(cy)

-----------------------------------------------------------------------------
(* The flat assignment list *)

\* C17: the assignment list of a returned response never holds two records
\* with the same employee, yard and day
C17_NoDuplicates ==
    Returned =>
        \A i \in 1..Len(response.assignments) : \A j \in 1..Len(response.assignments) :
            (/\ response.assignments[i].employee_id = response.assignments[j].employee_id
             /\ response.assignments[i].car_yard_id = response.assignments[j].car_yard_id
             /\ response.assignments[i].day = response.assignments[j].day) => i = j

\* C17 over a horizon without repeated days
C17_NoDuplicatesDistinctDays == DistinctDays => C17_NoDuplicates

\* a day listed twice, a yard to visit twice a week: the one assignment of the
\* repeated day is listed twice
C17_RepeatedDay ==
    /\ Returned
    /\ request.days = <<1, 1>>
    /\ Len(request.employees) = 1
    /\ Len(response.assignments) = 2
    /\ response.assignments[1] = response.assignments[2]

-----------------------------------------------------------------------------
(* Optional yards and the objective *)

\* the yard has no per_week, no required_days and no link
Optional(r, cy) ==
    ~has_per_week(cy) /\ ~has_required_days(cy) /\ cy.id \notin linked_yard_ids(r)

\* the assignment s with the crew at the yard on the day, each working w
WithCrew(s, cy_id, day, crew, w) ==
    [s EXCEPT ![<<cy_id, day>>] = [x |-> crew, covered |-> 1, work |-> w]]

\* the crews of min_employees employees
MinimumCrews(r, cy) ==
    {crew \in [EmployeeIds(r) -> {0, 1}] :
        Cardinality({emp_id \in EmployeeIds(r) : crew[emp_id] = 1}) = cy.min_employees}

\* a crew of min_employees employees on some day of the horizon can be added to
\* the solution for the yard without breaking a constraint of the model
CanAddCrew(cy) ==
    \E day \in Days(request) : \E crew \in MinimumCrews(request, cy) :
        \E w \in WorkCandidates(request, cy.id, crew) :
            Feasible(request, WithCrew(solution, cy.id, day, crew, w))

\* the largest difference that the terms of the objective other than the
\* priority score can make between two assignments of the request
LowerTermsSpread(r) ==
    LET shifts == Len(r.employees) * Len(r.car_yards) * Len(r.days)
        members == SumSeq([g \in 1..Len(r.yard_groups) |->
                                Cardinality(r.yard_groups[g] \cap YardIds(r))],
                          1, Len(r.yard_groups))
        pairs == (Len(r.car_yards) * (Len(r.car_yards) - 1)) \div 2
        best == CHOOSE m \in {r.employees[i].ranking : i \in 1..Len(r.employees)} :
                    \A i \in 1..Len(r.employees) : r.employees[i].ranking <= m
    IN  OBJECTIVE_QUALITY_WEIGHT * best * shifts
        + OBJECTIVE_GROUPING_WEIGHT * GROUPING_BONUS_BASE_WEIGHT
            * members * Len(r.employees) * Len(r.days)
        + OBJECTIVE_BALANCE_WEIGHT * Len(r.car_yards) * Len(r.days)
        + OBJECTIVE_EXTRA_EMPLOYEE_WEIGHT * shifts
        + OBJECTIVE_ASSIGNMENT_PENALTY * shifts
        + OBJECTIVE_PARTIAL_OVERLAP_WEIGHT * pairs * Len(r.days)

\* the request of the example: one employee available on day 1 only, one yard
\* for exactly one employee, day 1 scheduled
OneEmployeeOneYard ==
    /\ Len(request.employees) = 1 /\ request.employees[1].available_days = {1}
    /\ Len(request.car_yards) = 1
    /\ request.car_yards[1].min_employees = 1 /\ request.car_yards[1].max_employees = 1
    /\ request.days = <<1>>

\* the roster of the example: one assignment, of the employee on day 1
OneAssignment ==
    /\ Len(response.assignments) = 1
    /\ response.assignments[1].employee_id = request.employees[1].id
    /\ response.assignments[1].day = 1

C18_CrowdedCovered ==
    /\ Returned /\ status = "OPTIMAL"
    /\ Len(request.car_yards) = CrowdedYards + 1
    /\ Optional(request, request.car_yards[1])
    /\ CoverageCount(request, solution, 1) = 1

-----------------------------------------------------------------------------
(* The reliability rating *)

\* two employees with the same available days and no excluded region, the
\* first with the higher ranking
RatedAbove(hi, lo) ==
    /\ hi.available_days = lo.available_days
    /\ hi.not_region = NoRegion /\ lo.not_region = NoRegion
    /\ hi.ranking > lo.ranking

\* the number of assignment records of the employee
ShiftCount(emp_id) ==
    Cardinality({i \in 1..Len(response.assignments) :
                    response.assignments[i].employee_id = emp_id})

\* C19: in a returned optimal solution, of two employees with the same
\* available days and no excluded region the one with the higher ranking has
\* at least as many shifts as the other
C19_RatingPreferred ==
    (Returned /\ status = "OPTIMAL") =>
        \A hi \in RangeOf(request.employees) : \A lo \in RangeOf(request.employees) :
            RatedAbove(hi, lo) => ShiftCount(hi.id) >= ShiftCount(lo.id)

\* an optimal roster that gives the employee of the higher ranking more shifts
\* than the other over a horizon of several days
C19_Witness ==
    /\ Returned /\ status = "OPTIMAL"
    /\ Len(request.days) > 1
    /\ \E hi \in RangeOf(request.employees) : \E lo \in RangeOf(request.employees) :
        /\ RatedAbove(hi, lo)
        /\ ShiftCount(hi.id) > ShiftCount(lo.id)
        /\ ShiftCount(lo.id) > 0

-----------------------------------------------------------------------------
(* The priority of the yards *)

\* the yard is covered on some day of the assignment
Covers(s, cy) == CoverageCount(request, s, cy.id) >= 1

\* the constraints allow covering either yard but not both
EitherNotBoth(a, b) ==
    LET sols == Solutions(request)
    IN  /\ \E s \in sols : Covers(s, a)
        /\ \E s \in sols : Covers(s, b)
        /\ ~\E s \in sols : Covers(s, a) /\ Covers(s, b)

\* two optional yards, the first of the higher priority
HigherPriority(a, b) ==
    /\ Optional(request, a) /\ Optional(request, b)
    /\ priority_weights(a.priority) > priority_weights(b.priority)

\* what the objective gives for the yard of the higher priority over the other
PriorityStep(a, b) ==
    OBJECTIVE_PRIORITY_WEIGHT
        * (priority_weights(a.priority) - priority_weights(b.priority))

\* the request has no optional yard other than the two
OnlyOptional(a, b) ==
    \A cy \in RangeOf(request.car_yards) : Optional(request, cy) => cy \in {a, b}

C20_ThreeYards ==
    /\ Returned /\ status = "OPTIMAL"
    /\ Len(request.car_yards) = 3
    /\ ~Covers(solution, request.car_yards[1])
    /\ Covers(solution, request.car_yards[2])
    /\ Covers(solution, request.car_yards[3])

\* the optimal roster that covers the yard of low priority named by the groups
\* and leaves the yard of medium priority uncovered
C20_ManyGroups ==
    /\ Returned /\ status = "OPTIMAL"
    /\ Len(request.yard_groups) = ManyGroups
    /\ request.car_yards[1].priority = "medium" /\ request.car_yards[2].priority = "low"
    /\ ~Covers(solution, request.car_yards[1])
    /\ Covers(solution, request.car_yards[2])

-----------------------------------------------------------------------------
(* Overstaffing *)

\* the yard is covered on the day by more than min_employees employees and
\* each of them also works another yard that day
AllMultiSite(r, s, cy_id, day) ==
    /\ covered(s, cy_id, day) = 1
    /\ employees_at_yard(r, s, cy_id, day) > car_yards(r, cy_id).min_employees
    /\ \A emp_id \in EmployeeIds(r) :
        x(s, emp_id, cy_id, day) = 1 =>
            \E o \in YardIds(r) \ {cy_id} : x(s, emp_id, o, day) = 1

\* the assignments that satisfy every constraint of the model other than
\* those on penalty_amount (lines 500-515)
PenaltyFreeSolutions(r) ==
    {s \in ModelCandidates(r, YardIds(r)) :
        HoursConstraint(r, s) /\ LinkedYardConstraint(r, s)}

\* C21: an assignment that satisfies the other constraints, in which a covered
\* yard has more than min_employees employees on a day who all work another
\* yard that day too, satisfies the constraints on penalty_amount for that yard
\* and day, with penalty_amount 0
C21_MultiSiteOverstaffing ==
    phase = "Modeled" =>
        \A s \in PenaltyFreeSolutions(request) :
            \A cy_id \in YardIds(request) : \A day \in Days(request) :
                AllMultiSite(request, s, cy_id, day)
                    => penalty_amounts(request, s, cy_id, day) = {0}

\* what the solver does instead: no solution has such a yard and day
C21_NeverAssigned ==
    SolverSucceeded =>
        \A cy_id \in YardIds(request) : \A day \in Days(request) :
            ~AllMultiSite(request, solution, cy_id, day)

\* the request of the example: two employees, two yards for one or two
\* employees, with hours for both employees to work both yards on a day
C21_Example ==
    /\ phase = "Modeled"
    /\ Len(request.employees) = 2 /\ Len(request.car_yards) = 2
    /\ \E s \in PenaltyFreeSolutions(request) :
        \E day \in Days(request) :
            /\ AllMultiSite(request, s, 1, day)
            /\ AllMultiSite(request, s, 2, day)
            /\ penalty_amounts(request, s, 1, day) = {}

-----------------------------------------------------------------------------
(* Crews joined in the course of a day *)

\* block j is placed after block i on the same day, they share an employee
\* and an employee of block j does not work the yard of block i
JoinedLater(i, j) ==
    /\ WorksAfter(i, j)
    /\ RangeOf(Blocks[j].employees) \ RangeOf(Blocks[i].employees) # {}

\* lines 738-749: the penalty variable of two yards, created for the pair
\* with the smaller id first
PairPenalty(s, cy_1, cy_2, day) ==
    IF cy_1 < cy_2 THEN partial_overlap_penalty(request, s, cy_1, cy_2, day)
    ELSE partial_overlap_penalty(request, s, cy_2, cy_1, day)

\* C22: when two yards staffed on the same day share an employee and the yard
\* placed later in the day has an employee who does not work the yard placed
\* earlier, the partial overlap penalty of the pair and day is 1, whichever of
\* the two yards has the smaller id
C22_JoinerPenalised ==
    (Returned /\ DistinctDays) =>
        \A i \in 1..Len(Blocks) : \A j \in 1..Len(Blocks) :
            JoinedLater(i, j) =>
                PairPenalty(solution, Blocks[i].car_yard_id, Blocks[j].car_yard_id,
                            Blocks[j].day) = 1

\* C22 for the pairs where the yard placed later has the larger id
C22_JoinerPenalisedInIdOrder ==
    (Returned /\ DistinctDays) =>
        \A i \in 1..Len(Blocks) : \A j \in 1..Len(Blocks) :
            (JoinedLater(i, j) /\ Blocks[i].car_yard_id < Blocks[j].car_yard_id) =>
                PairPenalty(solution, Blocks[i].car_yard_id, Blocks[j].car_yard_id,
                            Blocks[j].day) = 1

\* a returned timetable where the yard placed later has the smaller id and
\* gains an employee, while every employee of the earlier yard stays on
C22_Example ==
    /\ Returned /\ DistinctDays
    /\ \E i \in 1..Len(Blocks) : \E j \in 1..Len(Blocks) :
        /\ JoinedLater(i, j)
        /\ Blocks[j].car_yard_id < Blocks[i].car_yard_id
        /\ RangeOf(Blocks[i].employees) \subseteq RangeOf(Blocks[j].employees)
        /\ PairPenalty(solution, Blocks[i].car_yard_id, Blocks[j].car_yard_id,
                       Blocks[j].day) = 0

-----------------------------------------------------------------------------
(* The order of the yards within a day *)

\* the yards with an assignment on the day
StaffedOn(day) == {cy_id \in YardIds(request) : AssignedTo(cy_id, day) # {}}

\* the positions of the blocks of the day in stats.yard_timeblocks
BlocksOf(day) == {j \in 1..Len(Blocks) : Blocks[j].day = day}

\* yard a comes before yard b in the order of (startTime or default start,
\* priority rank, yard id)
ComesBefore(a, b) ==
    LET cy_a == car_yards(request, a)
        cy_b == car_yards(request, b)
        start_a == earliest_allowed(request, cy_a)
        start_b == earliest_allowed(request, cy_b)
        rank_a == priority_rank(cy_a.priority)
        rank_b == priority_rank(cy_b.priority)
    IN  \/ start_a < start_b
        \/ start_a = start_b /\ rank_a < rank_b
        \/ start_a = start_b /\ rank_a = rank_b /\ a < b

\* the sequence of yard ids is in strictly ascending order
Ascending(ids) ==
    \A i \in 1..Len(ids) : \A j \in 1..Len(ids) : i < j => ComesBefore(ids[i], ids[j])

C23_ByStartTime ==
    /\ Returned /\ DistinctDays
    /\ \E d \in 1..Len(request.days) :
        LET listed == response.roster[d].yards
        IN  /\ Len(listed) = 2
            /\ earliest_allowed(request, car_yards(request, listed[1].car_yard_id))
                < earliest_allowed(request, car_yards(request, listed[2].car_yard_id))
            /\ priority_rank(car_yards(request, listed[1].car_yard_id).priority)
                > priority_rank(car_yards(request, listed[2].car_yard_id).priority)

\* over a horizon with a repeated day the blocks of the day come twice
C23_RepeatedDay ==
    /\ Returned /\ ~DistinctDays
    /\ \E d \in 1..Len(request.days) :
        Len(response.roster[d].yards) > Cardinality(StaffedOn(request.days[d]))

-----------------------------------------------------------------------------
(* One time block for every staffed yard and day *)

\* the positions of the blocks of the yard and day
BlocksAt(cy_id, day) ==
    {j \in 1..Len(Blocks) : Blocks[j].car_yard_id = cy_id /\ Blocks[j].day = day}

\* the positions of the assignment records of the yard and day
RecordsAt(cy_id, day) ==
    {i \in 1..Len(response.assignments) :
        /\ response.assignments[i].car_yard_id = cy_id
        /\ response.assignments[i].day = day}

\* hours_required * 60 / n minutes, in seconds
ShareSeconds(cy_id, n) ==
    (car_yards(request, cy_id).hours_required * SecondsPerHour * SecondsPerMinute)
        \div (QuartersPerHour * SecondsPerMinute * n)

\* every record of the yard and day carries the times of block j, which are
\* minutes of the day and so not the empty time
CarriedByRecords(cy_id, day, j) ==
    \A i \in RecordsAt(cy_id, day) :
        /\ response.assignments[i].start_time = Blocks[j].start_time
        /\ response.assignments[i].finish_time = Blocks[j].finish_time

C24_HalfMinute ==
    /\ Returned /\ DistinctDays
    /\ \E j \in 1..Len(Blocks) :
        ShareSeconds(Blocks[j].car_yard_id,
                     Cardinality(AssignedTo(Blocks[j].car_yard_id, Blocks[j].day)))
            % SecondsPerMinute # 0

\* a returned block that ends after midnight
C24_PastMidnight ==
    /\ Returned /\ DistinctDays
    /\ \E j \in 1..Len(Blocks) : Blocks[j].finish_time < Blocks[j].start_time

\* a returned yard and day with two blocks
C24_TwoBlocks ==
    /\ Returned
    /\ \E cy_id \in YardIds(request) : \E day \in Days(request) :
        Cardinality(BlocksAt(cy_id, day)) = 2

-----------------------------------------------------------------------------
(* The partial overlap penalty variable *)

\* the pairs of yards of lines 741-745 with the days
YardPairDays ==
    {k \in YardIds(request) \X YardIds(request) \X Days(request) : k[1] < k[2]}

\* some employee is assigned to both yards on the day
SomeoneAtBoth(cy_a, cy_b, day) ==
    \E emp_id \in EmployeeIds(request) :
        x(solution, emp_id, cy_a, day) = 1 /\ x(solution, emp_id, cy_b, day) = 1

\* some employee is assigned to cy_b and not to cy_a on the day
SomeoneAtSecondOnly(cy_a, cy_b, day) ==
    \E emp_id \in EmployeeIds(request) :
        x(solution, emp_id, cy_b, day) = 1 /\ x(solution, emp_id, cy_a, day) = 0

\* C25: for every day and every pair of yards a < b, the constraints of
\* _create_partial_overlap_penalty leave one value to the penalty variable:
\* 1 when some employee is assigned to both a and b that day and some employee
\* is assigned to b and not to a that day, and 0 otherwise; it is the value
\* that enters the objective
C25_PartialOverlapExact ==
    SolverSucceeded =>
        \A k \in YardPairDays :
            /\ mix_var_values(request, solution, k[1], k[2], k[3])
                = {IF SomeoneAtBoth(k[1], k[2], k[3]) /\ SomeoneAtSecondOnly(k[1], k[2], k[3])
                   THEN 1 ELSE 0}
            /\ mix_var_values(request, solution, k[1], k[2], k[3])
                = {partial_overlap_penalty(request, solution, k[1], k[2], k[3])}

\* a solution with a pair of yards of penalty 1, a pair that shares an
\* employee without a joiner, and a pair with a joiner and no shared employee
C25_Witness ==
    /\ SolverSucceeded
    /\ \E k \in YardPairDays :
        mix_var_values(request, solution, k[1], k[2], k[3]) = {1}

C25_SharedOnly ==
    /\ SolverSucceeded
    /\ \E k \in YardPairDays :
        /\ SomeoneAtBoth(k[1], k[2], k[3])
        /\ ~SomeoneAtSecondOnly(k[1], k[2], k[3])

C25_JoinerOnly ==
    /\ SolverSucceeded
    /\ \E k \in YardPairDays :
        /\ ~SomeoneAtBoth(k[1], k[2], k[3])
        /\ SomeoneAtSecondOnly(k[1], k[2], k[3])

-----------------------------------------------------------------------------
(* The order of the objective terms *)

\* lines 751-766: the terms of the objective in the order of their comments,
\* each as a quantity to be maximised
RankedTerms(r, s) ==
    <<priority_score(r, s), quality_score(r, s), grouping_bonus(r, s),
      0 - workload_balance(r, s), 0 - extra_employee_penalties(r, s),
      0 - total_assignments(r, s), 0 - partial_overlap_penalties(r, s)>>

\* s is strictly better than t on the first term on which they differ
BetterOnFirstDifference(r, s, t) ==
    LET a == RankedTerms(r, s)
        b == RankedTerms(r, t)
    IN  \E i \in 1..Len(a) :
            /\ a[i] > b[i]
            /\ \A j \in 1..(i - 1) : a[j] = b[j]

\* C26: a feasible solution that is strictly better than another feasible
\* solution of the same request on the highest-ranked objective term on which
\* the two differ (priority coverage, reliability, grouping, balance,
\* overstaffing, assignment count, fragmentation) has the strictly larger
\* objective value
C26_RankOrder ==
    SolverSucceeded =>
        \A other \in Solutions(request) :
            BetterOnFirstDifference(request, solution, other)
                => Objective(request, solution) > Objective(request, other)

\* a solution that staffs a yard with two employees where one would do: it
\* has the larger reliability term and, by the overstaffing penalty, the
\* smaller objective value than the solution without the second employee
C26_Example ==
    /\ SolverSucceeded
    /\ \E other \in Solutions(request) :
        /\ priority_score(request, solution) = priority_score(request, other)
        /\ quality_score(request, solution) > quality_score(request, other)
        /\ extra_employee_penalties(request, solution)
            > extra_employee_penalties(request, other)
        /\ Objective(request, solution) < Objective(request, other)

-----------------------------------------------------------------------------
(* The grouping term *)

\* the two assignments cover the same yards on the same days with the same
\* numbers of employees
SameCrewSizes(r, s, t) ==
    \A cy_id \in YardIds(r) : \A day \in Days(r) :
        /\ covered(s, cy_id, day) = covered(t, cy_id, day)
        /\ employees_at_yard(r, s, cy_id, day) = employees_at_yard(r, t, cy_id, day)

\* two yards of one group of the request
GroupedPairs(r) ==
    {p \in YardIds(r) \X YardIds(r) :
        p[1] < p[2] /\ \E g \in 1..Len(r.yard_groups) : {p[1], p[2]} \subseteq r.yard_groups[g]}

\* some employee works both yards of the pair on one day
WorkedTogether(r, s, p) ==
    \E emp_id \in EmployeeIds(r) : \E day \in Days(r) :
        x(s, emp_id, p[1], day) = 1 /\ x(s, emp_id, p[2], day) = 1

\* C27: of two solutions with the same covered yards and days and the same
\* number of employees at each, the one in which an employee works two yards
\* of a yard group on the same day has a strictly larger grouping term than
\* the one in which the two yards are worked by different employees
C27_GroupingRewarded ==
    SolverSucceeded =>
        \A p \in GroupedPairs(request) : \A other \in Solutions(request) :
            (/\ SameCrewSizes(request, solution, other)
             /\ WorkedTogether(request, solution, p)
             /\ ~WorkedTogether(request, other, p))
                => grouping_bonus(request, solution) > grouping_bonus(request, other)

\* what the code computes: the grouping term of two solutions with the same
\* numbers of employees at every yard and day is the same
C27_GroupingByCrewSize ==
    (SolverSucceeded /\ request.yard_groups # <<>>) =>
        \A other \in Solutions(request) :
            SameCrewSizes(request, solution, other)
                => grouping_bonus(request, solution) = grouping_bonus(request, other)

\* a solution in which one employee works both yards of a group on a day, next
\* to a solution in which two employees work one of them each
C27_Example ==
    /\ SolverSucceeded
    /\ \E p \in GroupedPairs(request) : \E other \in Solutions(request) :
        /\ SameCrewSizes(request, solution, other)
        /\ WorkedTogether(request, solution, p)
        /\ ~WorkedTogether(request, other, p)
        /\ grouping_bonus(request, solution) > 0
        /\ grouping_bonus(request, solution) = grouping_bonus(request, other)

-----------------------------------------------------------------------------
(* Blocks and midnight *)

\* C28: in every returned response every block finishes later than it starts
\* and starts no earlier than the earliest time allowed to its yard
C28_NoWrap ==
    (Returned /\ DistinctDays) =>
        \A j \in 1..Len(Blocks) :
            /\ Blocks[j].finish_time > Blocks[j].start_time
            /\ Blocks[j].start_time >= EarliestMinute(car_yards(request, Blocks[j].car_yard_id))

\* the part that holds: no block starts before the earliest time allowed to
\* its yard, and a block that finishes the same day finishes after its start
C28_SameDayBlocks ==
    (Returned /\ DistinctDays) =>
        \A j \in 1..Len(Blocks) :
            /\ Blocks[j].start_time >= EarliestMinute(car_yards(request, Blocks[j].car_yard_id))
            /\ Blocks[j].start_time * SecondsPerMinute + Blocks[j].minutes_per_employee
                    < SecondsPerDay - SecondsPerMinute
                => Blocks[j].finish_time > Blocks[j].start_time

\* a returned block for a yard with a start time of 22:30 that is worked after
\* another yard and finishes after midnight
C28_Example ==
    /\ Returned /\ DistinctDays
    /\ \E j \in 1..Len(Blocks) :
        /\ car_yards(request, Blocks[j].car_yard_id).startTime = <<22, 30>>
        /\ Blocks[j].start_time > 22 * 60 + 30
        /\ Blocks[j].finish_time < Blocks[j].start_time

-----------------------------------------------------------------------------
(* Yards too long for a day *)

\* the yard's minutes divided by its max_employees, or by the number of
\* employees if that is smaller, exceed the minutes of max_hours_per_day
Overlong(r, cy) ==
    LET crew == IF cy.max_employees < Len(r.employees) THEN cy.max_employees
                ELSE Len(r.employees)
    IN  ToMinutes(cy.hours_required) > ToMinutes(r.max_hours_per_day) * crew

\* C29: a yard whose minutes divided by its largest possible crew exceed the
\* daily maximum is covered on no day of any solution or returned roster, and
\* when the yard must be covered no roster is returned and a request that
\* reached the solver fails with the error of no feasible solution
C29_OverlongNeverCovered ==
    \A cy \in RangeOf(request.car_yards) :
        Overlong(request, cy) =>
            /\ SolverSucceeded => CoverageCount(request, solution, cy.id) = 0
            /\ Returned => \A day \in Days(request) : AssignedTo(cy.id, day) = {}
            /\ Mandatory(request, cy) =>
                /\ phase \notin {"Extracted", "Returned"}
                /\ phase = "Solved" => ~SolverSucceeded
                /\ (phase = "Failed" /\ solver_calls > 0)
                    => error = "No feasible solution found"

\* a returned roster that leaves out an optional yard too long for its
\* employees, who are eligible for it, and covers the other yard
C29_Witness ==
    /\ Returned
    /\ \E cy \in RangeOf(request.car_yards) :
        /\ Overlong(request, cy)
        /\ ~Mandatory(request, cy)
        /\ ~Unstaffable(request, cy)
        /\ \A day \in Days(request) : AssignedTo(cy.id, day) = {}
    /\ Len(response.assignments) >= 1

\* a request that failed as infeasible for a mandatory yard that is too long
\* although two employees are eligible for it
C29_Infeasible ==
    /\ phase = "Failed"
    /\ status = "INFEASIBLE"
    /\ error = "No feasible solution found"
    /\ \E cy \in RangeOf(request.car_yards) :
        /\ Overlong(request, cy)
        /\ Mandatory(request, cy)
        /\ ~Unstaffable(request, cy)
        /\ cy.max_employees = 2 /\ Len(request.employees) = 2

\* a solution that covers a yard of 4 hours with two employees of 3 hours
C29_Shared ==
    /\ SolverSucceeded
    /\ \E cy \in RangeOf(request.car_yards) :
        /\ ToMinutes(cy.hours_required) > ToMinutes(request.max_hours_per_day)
        /\ ~Overlong(request, cy)
        /\ CoverageCount(request, solution, cy.id) >= 1

-----------------------------------------------------------------------------
(* Links to unknown yards *)

\* the yard declares a link to an id that is not a yard of the request
LinksToUnknown(r, cy) ==
    cy.linked_yard # None /\ \A o \in RangeOf(r.car_yards) : o.id # cy.linked_yard[1]

\* the request without its links to unknown yards
WithoutUnknownLinks(r) ==
    [r EXCEPT !.car_yards =
        [i \in 1..Len(r.car_yards) |->
            IF LinksToUnknown(r, r.car_yards[i])
            THEN [r.car_yards[i] EXCEPT !.linked_yard = None]
            ELSE r.car_yards[i]]]

\* C30: a request with a link to an id that is not one of its yards is treated
\* as the same request without that link: the same validation outcome, also
\* with a negative gap or more than one weekly visit, and the same solutions,
\* so no gap constraint and no single visit is imposed by the link
C30_UnknownLinkIgnored ==
    (\E cy \in RangeOf(request.car_yards) : LinksToUnknown(request, cy)) =>
        /\ InputError(request) = InputError(WithoutUnknownLinks(request))
        /\ InputError(request) = NoError
            => ModelError(request) = ModelError(WithoutUnknownLinks(request))
        /\ phase = "Modeled"
            => Solutions(request) = Solutions(WithoutUnknownLinks(request))
        /\ phase = "Failed" =>
            error \in {InputError(WithoutUnknownLinks(request)),
                       ModelError(WithoutUnknownLinks(request)),
                       "No feasible solution found", "No feasible assignments produced"}

\* a returned roster for a yard that links to an unknown id with a negative gap
\* and asks for two visits, which it receives
C30_Witness ==
    /\ Returned
    /\ \E cy \in RangeOf(request.car_yards) :
        /\ LinksToUnknown(request, cy)
        /\ cy.linked_yard[2] < 0
        /\ WeeklyVisits(cy) = 2
        /\ CoverageCount(request, solution, cy.id) = 2

\* a returned roster that leaves out a yard without frequency attributes that
\* links to an unknown id
C30_Uncovered ==
    /\ Returned
    /\ \E cy \in RangeOf(request.car_yards) :
        /\ LinksToUnknown(request, cy)
        /\ cy.id \notin linked_yard_ids(request)
        /\ CoverageCount(request, solution, cy.id) = 0

====
